---- MODULE Spec2Model ----
(***************************************************************************)
(* Evalmodel backend: the SMCP evaluation engine (services/smcp_engine.py),*)
(* the /evaluate request handler (routes/evaluation.py) and the analysis   *)
(* services it calls (explainability.py, fairness.py, meta_evaluator.py).  *)
(*                                                                         *)
(* SpecEngine  one call of SMCPEngine.evaluate_model, or of one of the     *)
(*             evaluate_* metric calculators, step by step.                *)
(* Spec        /evaluate requests running concurrently against the         *)
(*             metadata store (check-then-write persistence).              *)
(* SpecSeq     the same requests, one at a time.                           *)
(* SpecExplain one call of ExplainabilityEngine.explain_model.             *)
(* SpecFair    one call of FairnessEngine.analyze_fairness.                *)
(* SpecAttr    the sensitive-attribute resolution of one /evaluate request.*)
(* SpecScore   one call of SMCPEngine.calculate_eval_score on a            *)
(*             MetricsResult.                                              *)
(* SpecHealth  one call of MetaEvaluator._calculate_dataset_health.        *)
(* SpecMeta    one call of MetaEvaluator.evaluate, step by step.           *)
(* SpecPredict one call of ExplainabilityEngine.explain_prediction.        *)
(* SpecRank    the ranking of features by importance.                      *)
(* SpecPair    FairnessEngine.analyze_fairness on two inputs that differ   *)
(*             outside the first two groups.                               *)
(* SpecPipeline a metric calculator, then calculate_eval_score.            *)
(* SpecTarget  the target column each stage of one /evaluate request uses. *)
(* SpecPromote promotions of model versions (routes/models.py),            *)
(*             interleaved.                                                *)
(*                                                                         *)
(* Python floats are modelled as exact fractions, with NaN as a value of   *)
(* its own; the inputs are drawn from dyadic grids, on which the float     *)
(* comparisons of the code agree with the exact ones.                      *)
(***************************************************************************)
EXTENDS Integers, Sequences, FiniteSets, TLC

VARIABLES
    ecall,      \* engine: the arguments and the environment of the call
    epc,        \* engine: position in SMCPEngine.evaluate_model
    tried,      \* engine: deserialization strategies attempted so far, in order
    errors,     \* engine: load_model's local list `errors`
    emodel,     \* engine: the object load_model returned
    eres,       \* engine: what the call returned or raised
    eat,        \* engine: the step an exception was raised in
    pc,         \* route: position of each request in evaluate_model
    req,        \* route: each request's arguments and intermediate results
    temp,       \* route: files in each request's TemporaryDirectory
    evaluations,\* store: rows of the "evaluations" table, in insertion order
    evaluated,  \* store: models.evaluated flag, per model id
    nextId,     \* store: next row id of the "evaluations" table
    started,    \* route: number of requests accepted so far
    history,    \* route: the completed requests that wrote to "evaluations"
    xcall,      \* explain_model: the engine's flags and what each library call does
    xpc,        \* explain_model: position in the method
    xran,       \* explain_model: the techniques invoked so far, in order
    xres,       \* explain_model: the dict `results`, and how the call ended
    fcall,      \* analyze_fairness: the arguments
    fpc,        \* analyze_fairness: position in the method
    fwork,      \* analyze_fairness: its locals
    fres,       \* analyze_fairness: what the call returned or raised
    acall,      \* attribute resolution: request, dataset row and frame
    apc,        \* attribute resolution: position in the block
    aconsulted, \* attribute resolution: the sources consulted so far, in order
    ares,       \* attribute resolution: sensitive_attr_col and what followed
    mcall,      \* meta evaluator: the arguments of evaluate
    mpc,        \* meta evaluator: position in evaluate
    mres,       \* meta evaluator: the locals of evaluate and the dict returned
    scall,      \* calculate_eval_score: the MetricsResult and the task type
    spc,        \* calculate_eval_score: position
    sres,       \* calculate_eval_score: the EvalScoreResult, or the failure
    icall,      \* feature importance: the technique and the importance of each feature
    ipc,        \* feature importance: position
    ires,       \* feature importance: the list returned
    hcall,      \* fairness on two inputs: the samples of the first two groups, and
                \* the samples of the other groups in the one input and in the other
    hpc,        \* fairness on two inputs: which of the two calls is next
    hres,       \* fairness on two inputs: what each call returned
    tcall,      \* target column: the columns of the dataset
    tpc,        \* target column: position in the request
    tres,       \* target column: the column each stage of the request used
    versions,   \* store: is_production of each row of "model_versions" of one model
    production_version, \* store: models.production_version of that model
    ppc,        \* promotion: position of each caller in promote_model_version
    pwant       \* promotion: the version each caller's request names

evars == <<ecall, epc, tried, errors, emodel, eres, eat>>
rvars == <<pc, req, temp, evaluations, evaluated, nextId, started, history>>
xvars == <<xcall, xpc, xran, xres>>
fvars == <<fcall, fpc, fwork, fres>>
avars == <<acall, apc, aconsulted, ares>>
mvars == <<mcall, mpc, mres>>
cvars == <<scall, spc, sres>>
ivars == <<icall, ipc, ires>>
hvars == <<hcall, hpc, hres>>
tvars == <<tcall, tpc, tres>>
pvars == <<versions, production_version, ppc, pwant>>
\* feature ranking, fairness on two inputs, target column, promotion
nvars == <<ivars, hvars, tvars, pvars>>
\* the analysis services, which the engine and the route steps leave alone
svars == <<xvars, fvars, avars, mvars, cvars, nvars>>
vars == <<ecall, epc, tried, errors, emodel, eres, eat,
          pc, req, temp, evaluations, evaluated, nextId, started, history,
          xcall, xpc, xran, xres, fcall, fpc, fwork, fres,
          acall, apc, aconsulted, ares, mcall, mpc, mres, scall, spc, sres,
          icall, ipc, ires, hcall, hpc, hres, tcall, tpc, tres,
          versions, production_version, ppc, pwant>>

NoValue == "None"

(***************************************************************************)
(* schemas.py: the two enumerations                                        *)
(***************************************************************************)
ModelType == {"classification", "regression", "nlp", "cv"}

ModelFramework == {"sklearn", "pytorch", "tensorflow", "keras", "onnx"}

(***************************************************************************)
(* Exceptions: only the class matters to the handlers                      *)
(***************************************************************************)
ValueError(entries) ==
    [kind |-> "raised", type |-> "ValueError", entries |-> entries, metrics |-> {}, scored |-> {}]

OtherError ==
    [kind |-> "raised", type |-> "Exception", entries |-> <<>>, metrics |-> {}, scored |-> {}]

HTTPException ==
    [kind |-> "raised", type |-> "HTTPException", entries |-> <<>>, metrics |-> {}, scored |-> {}]

\* a call that returns without raising
Fine == [kind |-> "ok", type |-> NoValue, entries |-> <<>>, metrics |-> {}, scored |-> {}]

(***************************************************************************)
(* SMCPEngine.load_model, sklearn branch: the strategies in source order,  *)
(* each with the label its failure is recorded under                       *)
(***************************************************************************)
STRATEGIES ==
    << "joblib.load",
       "pickle.load",
       "pickle.load(encoding=latin1)",
       "pickle.load(encoding=bytes)",
       "pickle.load(fix_imports,encoding=latin1)" >>

LABELS == <<"Joblib", "Standard pickle", "Latin1 encoding", "Bytes encoding", "Fix imports">>

NumStrategies == Len(STRATEGIES)

\* errors.append(f"{label}: {str(e)}")
ErrorEntry(i) == [label |-> LABELS[i], reason |-> <<"exception of", STRATEGIES[i]>>]

\* the object a strategy produces when it does not raise
Loaded(i) == [by |-> STRATEGIES[i]]

NoModel == [by |-> NoValue]

\* a message built from the last exception alone
LoadFailureLastOnly(errs) == ValueError(<<errs[Len(errs)]>>)

\* "Failed to load model file. Attempts:" and one line per entry of `errors`
LoadFailure(errs) == ValueError(errs)

(***************************************************************************)
(* Engine call: arguments and environment                                  *)
(***************************************************************************)
\* shapes of the CSV the call is given
\*   numeric       numeric feature columns and a last (target) column
\*   text_feature  as numeric, with a non-numeric feature column
\*   nlp_text      the columns predictions, references (text)
Frames == {"numeric", "text_feature", "nlp_text"}

HasNlpColumns(frame) == frame = "nlp_text"

FeaturesNumeric(frame) == frame = "numeric"

\* MetricsResult fields each calculator populates
MetricFields(model_type) ==
    CASE model_type = "classification" -> {"accuracy", "precision", "recall", "f1_score"}
      [] model_type = "regression" -> {"mae", "mse", "rmse", "r2_score"}
      [] model_type = "nlp" -> {"bleu_score", "rouge_score"}
      [] model_type = "cv" -> {"pixel_accuracy", "iou", "dice_coefficient"}

\* frameworks with a branch that obtains y_pred from the model, per calculator;
\* evaluate_nlp never calls the model and never reads `framework`
PredictionPath(model_type) ==
    CASE model_type = "classification" -> {"sklearn", "onnx", "pytorch", "keras", "tensorflow"}
      [] model_type = "regression" -> {"sklearn", "onnx", "pytorch", "keras", "tensorflow"}
      [] model_type = "nlp" -> {}
      [] model_type = "cv" -> {"pytorch", "keras", "tensorflow"}

NoResult == [kind |-> "none", type |-> NoValue, entries |-> <<>>, metrics |-> {}, scored |-> {}]

\* (MetricsResult, EvalScoreResult): the populated fields, the metrics scored
Returned(metrics, scored) ==
    [kind |-> "returned", type |-> NoValue, entries |-> <<>>, metrics |-> metrics, scored |-> scored]

\* the exceptions a library call can raise, by class
Raisable == {ValueError(<<>>), OtherError}

EngineCalls ==
    [ entry : {"evaluate_model", "evaluate_metrics"},
      framework : ModelFramework,
      model_type : ModelType,
      loads : SUBSET (1..NumStrategies),  \* strategies that do not raise on the artifact
      frame : Frames ]

EngineInit ==
    /\ ecall \in { c \in EngineCalls :
                     /\ c.framework # "sklearn" => c.loads \in {{}, {1}}
                     /\ c.entry = "evaluate_metrics" => c.loads = {1} }
    /\ epc = IF ecall.entry = "evaluate_model" THEN "load" ELSE "metrics"
    /\ tried = <<>>
    /\ errors = <<>>
    /\ emodel = IF ecall.entry = "evaluate_model" THEN NoModel ELSE [by |-> "caller"]
    /\ eres = NoResult
    /\ eat = NoValue

(***************************************************************************)
(* Engine steps: go on to the next statement, or raise out of the call     *)
(***************************************************************************)
Advance(to) == epc' = to /\ UNCHANGED <<eres, eat>>

Raise(exc) == epc' = "raised" /\ eres' = exc /\ eat' = epc

\* raise ValueError(f"Framework {framework} not supported for ...")
RaiseUnsupported == epc' = "raised" /\ eres' = ValueError(<<>>) /\ eat' = "unsupported"

(***************************************************************************)
(* SMCPEngine.load_model                                                   *)
(***************************************************************************)
\* the sklearn branch without the `return` of a successful strategy: every
\* strategy is run and the last object loaded is kept
load_model_sklearn_keeps_trying ==
    /\ epc = "load"
    /\ ecall.framework = "sklearn"
    /\ Len(tried) < NumStrategies
    /\ LET i == Len(tried) + 1
           m == IF i \in ecall.loads THEN Loaded(i) ELSE emodel
       IN
        /\ tried' = Append(tried, STRATEGIES[i])
        /\ emodel' = m
        /\ errors' = IF i \in ecall.loads THEN errors ELSE Append(errors, ErrorEntry(i))
        /\ IF i < NumStrategies
           THEN Advance("load")
           ELSE IF m # NoModel THEN Advance("dataset") ELSE Raise(LoadFailure(errors'))
    /\ UNCHANGED <<ecall, rvars, svars>>

\* one try/except block of the sklearn branch
load_model_sklearn ==
    /\ epc = "load"
    /\ ecall.framework = "sklearn"
    /\ Len(tried) < NumStrategies
    /\ LET i == Len(tried) + 1 IN
        /\ tried' = Append(tried, STRATEGIES[i])
        /\ IF i \in ecall.loads
           THEN /\ emodel' = Loaded(i)
                /\ Advance("dataset")
                /\ UNCHANGED errors
           ELSE /\ errors' = Append(errors, ErrorEntry(i))
                /\ IF i = NumStrategies
                   THEN Raise(LoadFailure(errors'))
                   ELSE Advance("load")
                /\ UNCHANGED emodel
    /\ UNCHANGED <<ecall, rvars, svars>>

\* torch.load / keras load_model / onnxruntime session: any exception is
\* re-raised as ValueError("Failed to load model: ...")
load_model_framework ==
    /\ epc = "load"
    /\ ecall.framework # "sklearn"
    /\ tried' = Append(tried, ecall.framework)
    /\ IF 1 \in ecall.loads
       THEN emodel' = [by |-> ecall.framework] /\ Advance("dataset")
       ELSE Raise(ValueError(<<>>)) /\ UNCHANGED emodel
    /\ UNCHANGED <<ecall, errors, rvars, svars>>

(***************************************************************************)
(* SMCPEngine.evaluate_model: dataset, feature matrix                      *)
(***************************************************************************)
\* pd.read_csv; its exception is re-raised as it is
load_dataset ==
    /\ epc = "dataset"
    /\ \E out \in {Fine} \cup Raisable :
        IF out = Fine THEN Advance("prepare") ELSE Raise(out)
    /\ UNCHANGED <<ecall, tried, errors, emodel, rvars, svars>>

\* X = np.asarray(df.drop(columns=[target_column]).values, dtype=np.float64)
prepare_data ==
    /\ epc = "prepare"
    /\ IF FeaturesNumeric(ecall.frame)
       THEN Advance("metrics")
       ELSE Raise(ValueError(<<>>))
    /\ UNCHANGED <<ecall, tried, errors, emodel, rvars, svars>>

(***************************************************************************)
(* The metric calculators                                                  *)
(***************************************************************************)
\* keys of SMCPEngine.METRIC_WEIGHTS
WeightedMetrics(model_type) ==
    CASE model_type = "classification" -> {"accuracy", "precision", "recall", "f1_score"}
      [] model_type = "regression" -> {"r2_score", "mae", "rmse"}
      [] model_type = "nlp" -> {"bleu_score", "rouge_score", "perplexity"}
      [] model_type = "cv" -> {"accuracy", "iou", "dice_coefficient"}

\* evaluate_model goes on to calculate_eval_score; a calculator called on its
\* own returns its MetricsResult
ReturnMetrics(model_type) ==
    /\ epc' = IF ecall.entry = "evaluate_model" THEN "score" ELSE "returned"
    /\ eres' = Returned(MetricFields(model_type), {})
    /\ UNCHANGED eat

\* the if/elif chain over `framework`, then inference and the metric functions
FrameworkDispatch(model_type) ==
    IF ecall.framework \in PredictionPath(model_type)
    THEN \E out \in {Fine} \cup Raisable :
            IF out = Fine THEN ReturnMetrics(model_type) ELSE Raise(out)
    ELSE RaiseUnsupported

evaluate_classification ==
    /\ epc = "metrics"
    /\ ecall.model_type = "classification"
    /\ FrameworkDispatch("classification")
    /\ UNCHANGED <<ecall, tried, errors, emodel, rvars, svars>>

evaluate_regression ==
    /\ epc = "metrics"
    /\ ecall.model_type = "regression"
    /\ FrameworkDispatch("regression")
    /\ UNCHANGED <<ecall, tried, errors, emodel, rvars, svars>>

evaluate_cv ==
    /\ epc = "metrics"
    /\ ecall.model_type = "cv"
    /\ FrameworkDispatch("cv")
    /\ UNCHANGED <<ecall, tried, errors, emodel, rvars, svars>>

\* reads test_data['predictions'], test_data['references']; `model` and
\* `framework` are not used
evaluate_nlp ==
    /\ epc = "metrics"
    /\ ecall.model_type = "nlp"
    /\ IF HasNlpColumns(ecall.frame)
       THEN \E out \in {Fine} \cup Raisable :
               IF out = Fine THEN ReturnMetrics("nlp") ELSE Raise(out)
       ELSE Raise(OtherError)
    /\ UNCHANGED <<ecall, tried, errors, emodel, rvars, svars>>

\* normalized_metrics has the keys of the weight table present in the metrics
calculate_eval_score ==
    /\ epc = "score"
    /\ eres' = Returned(eres.metrics, WeightedMetrics(ecall.model_type) \cap eres.metrics)
    /\ epc' = "returned"
    /\ UNCHANGED <<ecall, tried, errors, emodel, eat, rvars, svars>>

EngineNext ==
    \/ load_model_sklearn
    \/ load_model_framework
    \/ load_dataset
    \/ prepare_data
    \/ evaluate_classification
    \/ evaluate_regression
    \/ evaluate_nlp
    \/ evaluate_cv
    \/ calculate_eval_score

(***************************************************************************)
(* The failures SMCPEngine.evaluate_model propagates to its caller:        *)
(* the step, and the class of the exception                                *)
(***************************************************************************)
EngineFailures ==
    { [at |-> "load", type |-> "ValueError"],
      [at |-> "dataset", type |-> "ValueError"],
      [at |-> "dataset", type |-> "Exception"],
      [at |-> "prepare", type |-> "ValueError"],
      [at |-> "unsupported", type |-> "ValueError"],
      [at |-> "metrics", type |-> "ValueError"],
      [at |-> "metrics", type |-> "Exception"] }

EngineStages == { f.at : f \in EngineFailures }

(***************************************************************************)
(* /evaluate: callers, metadata store                                      *)
(***************************************************************************)
MaxRequests == 2

Procs == {"a", "b"}

\* rows of the "models" and "datasets" tables owned by the caller
Models == {"m1", "m2"}

Datasets == {"d1"}

\* a model id with no row
MissingModel == "m0"

NoRow ==
    [id |-> 0, model_id |-> NoValue, dataset_id |-> NoValue, result |-> 0,
     explainability_method |-> NoValue, fairness_metrics |-> NoValue]

NoRequest ==
    [n |-> 0, model |-> NoValue, dataset |-> NoValue,
     status |-> 0, failedAt |-> NoValue, expl |-> NoValue, fair |-> NoValue,
     existing |-> 0, response |-> NoRow]

\* positions inside the `with tempfile.TemporaryDirectory()` block
InsideWith ==
    {"download_model", "download_dataset", "tags", "engine", "meta", "explain", "fairness"}

RouteInit ==
    /\ pc = [p \in Procs |-> "idle"]
    /\ req = [p \in Procs |-> NoRequest]
    /\ temp = [p \in Procs |-> {}]
    /\ evaluations = <<>>
    /\ evaluated = [m \in Models |-> FALSE]
    /\ nextId = 1
    /\ started = 0
    /\ history = {}

\* supabase.table("evaluations").select("id").eq("model_id", m).eq("dataset_id", d)
SelectEvaluations(m, d) ==
    { i \in 1..Len(evaluations) :
        evaluations[i].model_id = m /\ evaluations[i].dataset_id = d }

\* the except clauses of evaluate_model, in order
HttpStatus(type) ==
    IF type = "HTTPException" THEN 404
    ELSE IF type = "ValueError" THEN 400
    ELSE 500

\* a directory made without a scope that removes it
with_exit_leak(files) == files

\* TemporaryDirectory.__exit__: the directory and its files are removed
with_exit(files) == {}

\* what is remembered of a request that has written its row
Completed(r) == [n |-> r.n, model |-> r.model, dataset |-> r.dataset, status |-> r.status]

\* an exception leaves the handler: the with block is left, the except
\* clause answers
Fail(p, stage, type) ==
    /\ pc' = [pc EXCEPT ![p] = "failed"]
    /\ req' = [req EXCEPT ![p].status = HttpStatus(type), ![p].failedAt = stage]
    /\ temp' = [temp EXCEPT ![p] = IF pc[p] \in InsideWith THEN with_exit(@) ELSE @]
    /\ history' = IF pc[p] = "flag" THEN history \cup {Completed(req'[p])} ELSE history

Goto(p, to) == pc' = [pc EXCEPT ![p] = to] /\ UNCHANGED history

\* eval_data, as stored
EvalData(r, id) ==
    [id |-> id, model_id |-> r.model, dataset_id |-> r.dataset, result |-> r.n,
     explainability_method |-> IF r.expl = "explained" THEN "method" ELSE NoValue,
     fairness_metrics |-> IF r.fair = "analysed" THEN "fairness" ELSE NoValue]

(***************************************************************************)
(* evaluate_model (routes/evaluation.py), one action per step              *)
(***************************************************************************)
\* the request arrives; model and dataset metadata are fetched
start_request(p) ==
    /\ pc[p] \in {"idle", "done", "failed"}
    /\ started < MaxRequests
    /\ started' = started + 1
    /\ \E m \in Models \cup {MissingModel}, d \in Datasets :
        LET r == [NoRequest EXCEPT !.n = started + 1, !.model = m, !.dataset = d]
        IN IF m \in Models
           THEN req' = [req EXCEPT ![p] = r] /\ Goto(p, "download_model")
           ELSE /\ pc' = [pc EXCEPT ![p] = "failed"]
                /\ req' = [req EXCEPT ![p] = [r EXCEPT !.status = HttpStatus("HTTPException"),
                                                       !.failedAt = "metadata"]]
                /\ UNCHANGED history
    /\ UNCHANGED <<temp, evaluations, evaluated, nextId, evars, svars>>

\* the temporary directory is created; the model bytes are written to it
download_model(p) ==
    /\ pc[p] = "download_model"
    /\ \/ /\ temp' = [temp EXCEPT ![p] = {"model"}]
          /\ Goto(p, "download_dataset")
          /\ UNCHANGED req
       \/ Fail(p, "download", "Exception")
    /\ UNCHANGED <<evaluations, evaluated, nextId, started, evars, svars>>

download_dataset(p) ==
    /\ pc[p] = "download_dataset"
    /\ \/ /\ temp' = [temp EXCEPT ![p] = @ \cup {"dataset.csv"}]
          /\ Goto(p, "tags")
          /\ UNCHANGED req
       \/ Fail(p, "download", "Exception")
    /\ UNCHANGED <<evaluations, evaluated, nextId, started, evars, svars>>

\* ModelType(model["model_type"]); ModelFramework(model["framework"]): a stored
\* tag that is no member of the enumeration raises ValueError
parse_tags(p) ==
    /\ pc[p] = "tags"
    /\ \/ Goto(p, "engine") /\ UNCHANGED <<req, temp>>
       \/ Fail(p, "tags", "ValueError")
    /\ UNCHANGED <<evaluations, evaluated, nextId, started, evars, svars>>

\* the model is marked evaluated before the engine has run
run_engine_marks_evaluated(p) ==
    /\ pc[p] = "engine"
    /\ evaluated' = [evaluated EXCEPT ![req[p].model] = TRUE]
    /\ \/ Goto(p, "meta") /\ UNCHANGED <<req, temp>>
       \/ \E f \in EngineFailures : Fail(p, f.at, f.type)
    /\ UNCHANGED <<evaluations, nextId, started, evars, svars>>

\* metrics, eval_score = smcp_engine.evaluate_model(...)
run_engine(p) ==
    /\ pc[p] = "engine"
    /\ \/ Goto(p, "meta") /\ UNCHANGED <<req, temp>>
       \/ \E f \in EngineFailures : Fail(p, f.at, f.type)
    /\ UNCHANGED <<evaluations, evaluated, nextId, started, evars, svars>>

\* dataset statistics, then meta_evaluator.evaluate(...), which re-raises
meta_evaluation(p) ==
    /\ pc[p] = "meta"
    /\ \/ Goto(p, "explain") /\ UNCHANGED <<req, temp>>
       \/ \E type \in {"ValueError", "Exception"} : Fail(p, "meta", type)
    /\ UNCHANGED <<evaluations, evaluated, nextId, started, evars, svars>>

\* the explainability step without its try/except
explainability_analysis_propagates(p) ==
    /\ pc[p] = "explain"
    /\ \/ /\ \E out \in {"explained", "no_method"} :
                req' = [req EXCEPT ![p].expl = out]
          /\ Goto(p, "fairness")
          /\ UNCHANGED temp
       \/ Fail(p, "explain", "Exception")
    /\ UNCHANGED <<evaluations, evaluated, nextId, started, evars, svars>>

\* try: pickle.load, explain_model  except Exception: {"error", method_used None}
explainability_analysis(p) ==
    /\ pc[p] = "explain"
    /\ \E out \in {"explained", "no_method", "raised"} :
        req' = [req EXCEPT ![p].expl = out]
    /\ Goto(p, "fairness")
    /\ UNCHANGED <<temp, evaluations, evaluated, nextId, started, evars, svars>>

\* try: resolve the column, pickle.load, predict, analyze_fairness
\* except Exception: fairness_result = None; the with block ends here
fairness_analysis(p) ==
    /\ pc[p] = "fairness"
    /\ \E out \in {"analysed", "none", "raised"} :
        req' = [req EXCEPT ![p].fair = out]
    /\ temp' = [temp EXCEPT ![p] = with_exit(@)]
    /\ Goto(p, "check")
    /\ UNCHANGED <<evaluations, evaluated, nextId, started, evars, svars>>

\* existing = select of the pair's rows; existing.data[0] is the row to update
check_existing(p) ==
    /\ pc[p] = "check"
    /\ \/ /\ LET found == SelectEvaluations(req[p].model, req[p].dataset)
             IN \E e \in IF found = {} THEN {0} ELSE { evaluations[i].id : i \in found } :
                    req' = [req EXCEPT ![p].existing = e]
          /\ Goto(p, "write")
          /\ UNCHANGED temp
       \/ Fail(p, "persist", "Exception")
    /\ UNCHANGED <<evaluations, evaluated, nextId, started, evars, svars>>

\* persistence that inserts whether or not a row exists
write_evaluation_insert_only(p) ==
    /\ pc[p] = "write"
    /\ \/ /\ evaluations' = Append(evaluations, EvalData(req[p], nextId))
          /\ req' = [req EXCEPT ![p].response = EvalData(req[p], nextId)]
          /\ nextId' = nextId + 1
          /\ Goto(p, "flag")
          /\ UNCHANGED temp
       \/ Fail(p, "persist", "Exception") /\ UNCHANGED <<evaluations, nextId>>
    /\ UNCHANGED <<evaluated, started, evars, svars>>

\* if existing.data: update(eval_data).eq("id", ...)  else: insert(eval_data)
write_evaluation(p) ==
    /\ pc[p] = "write"
    /\ \/ /\ IF req[p].existing # 0
             THEN /\ evaluations' =
                        [i \in 1..Len(evaluations) |->
                            IF evaluations[i].id = req[p].existing
                            THEN EvalData(req[p], req[p].existing)
                            ELSE evaluations[i]]
                  /\ req' = [req EXCEPT ![p].response = EvalData(req[p], req[p].existing)]
                  /\ UNCHANGED nextId
             ELSE /\ evaluations' = Append(evaluations, EvalData(req[p], nextId))
                  /\ req' = [req EXCEPT ![p].response = EvalData(req[p], nextId)]
                  /\ nextId' = nextId + 1
          /\ Goto(p, "flag")
          /\ UNCHANGED temp
       \/ Fail(p, "persist", "Exception") /\ UNCHANGED <<evaluations, nextId>>
    /\ UNCHANGED <<evaluated, started, evars, svars>>

\* models.update({"evaluated": True}); the stored row is returned
mark_evaluated(p) ==
    /\ pc[p] = "flag"
    /\ \/ /\ evaluated' = [evaluated EXCEPT ![req[p].model] = TRUE]
          /\ req' = [req EXCEPT ![p].status = 200]
          /\ pc' = [pc EXCEPT ![p] = "done"]
          /\ history' = history \cup {Completed(req'[p])}
          /\ UNCHANGED temp
       \/ Fail(p, "persist", "Exception") /\ UNCHANGED evaluated
    /\ UNCHANGED <<evaluations, nextId, started, evars, svars>>

InFlight(p) == pc[p] \notin {"idle", "done", "failed"}

\* a request that arrives while no other is being handled
start_request_alone(p) ==
    /\ \A q \in Procs : ~InFlight(q)
    /\ start_request(p)

Step(p) ==
    \/ download_model(p)
    \/ download_dataset(p)
    \/ parse_tags(p)
    \/ run_engine(p)
    \/ meta_evaluation(p)
    \/ explainability_analysis(p)
    \/ fairness_analysis(p)
    \/ check_existing(p)
    \/ write_evaluation(p)
    \/ mark_evaluated(p)

Next == \E p \in Procs : start_request(p) \/ Step(p)

NextSeq == \E p \in Procs : start_request_alone(p) \/ Step(p)

(***************************************************************************)
(* Python floats: exact fractions n/d with d > 0, kept in lowest terms,    *)
(* and NaN, on which every comparison is false                             *)
(***************************************************************************)
Rat(n, d) == [n |-> n, d |-> d]

NaN == [n |-> 0, d |-> 0]

IsNaN(a) == a.d = 0

Zero == Rat(0, 1)

One == Rat(1, 1)

Hundred == Rat(100, 1)

Abs(i) == IF i < 0 THEN -i ELSE i

RECURSIVE Gcd(_, _)
Gcd(a, b) == IF b = 0 THEN a ELSE Gcd(b, a % b)

Reduce(n, d) == LET g == Gcd(Abs(n), d) IN Rat(n \div g, d \div g)

Add(a, b) == IF IsNaN(a) \/ IsNaN(b) THEN NaN ELSE Reduce(a.n * b.d + b.n * a.d, a.d * b.d)

Sub(a, b) == IF IsNaN(a) \/ IsNaN(b) THEN NaN ELSE Reduce(a.n * b.d - b.n * a.d, a.d * b.d)

Mul(a, b) == IF IsNaN(a) \/ IsNaN(b) THEN NaN ELSE Reduce(a.n * b.n, a.d * b.d)

\* a / b for b > 0
Div(a, b) == IF IsNaN(a) \/ IsNaN(b) THEN NaN ELSE Reduce(a.n * b.d, a.d * b.n)

RAbs(a) == IF IsNaN(a) THEN NaN ELSE Rat(Abs(a.n), a.d)

Lt(a, b) == ~IsNaN(a) /\ ~IsNaN(b) /\ a.n * b.d < b.n * a.d

Le(a, b) == ~IsNaN(a) /\ ~IsNaN(b) /\ a.n * b.d <= b.n * a.d

Gt(a, b) == Lt(b, a)

Ge(a, b) == Le(b, a)

\* max(a, b): b only if b > a, so a NaN first argument is kept
PyMax(a, b) == IF Gt(b, a) THEN b ELSE a

\* min(a, b): b only if b < a
PyMin(a, b) == IF Lt(b, a) THEN b ELSE a

\* the hundredth below x, and what is left of x above it, in units of 1/(100 d)
Floor2(x) == (100 * x.n) \div x.d

Rest2(x) == 100 * x.n - Floor2(x) * x.d

\* round(x, 2): the nearest hundredth; where x lies halfway between two
\* hundredths the float's last bit decides, so either neighbour can result
Round2(x) ==
    IF IsNaN(x) THEN {NaN}
    ELSE IF 2 * Rest2(x) < x.d THEN {Reduce(Floor2(x), 100)}
    ELSE IF 2 * Rest2(x) > x.d THEN {Reduce(Floor2(x) + 1, 100)}
    ELSE {Reduce(Floor2(x), 100), Reduce(Floor2(x) + 1, 100)}

\* sum of f[k] over the keys k in S
RECURSIVE SumOver(_, _)
SumOver(f, S) ==
    IF S = {} THEN Zero
    ELSE LET k == CHOOSE k \in S : TRUE IN Add(f[k], SumOver(f, S \ {k}))

\* sum of the entries of a list
RECURSIVE SumSeq(_)
SumSeq(s) == IF s = <<>> THEN Zero ELSE Add(Head(s), SumSeq(Tail(s)))

\* np.mean: nan on an empty list
Mean(s) == IF s = <<>> THEN NaN ELSE Div(SumSeq(s), Rat(Len(s), 1))

\* d.get(key, default)
Get(d, key, default) == IF key \in DOMAIN d THEN d[key] ELSE default

(***************************************************************************)
(* SMCPEngine.calculate_eval_score on a MetricsResult                      *)
(***************************************************************************)
METRIC_WEIGHTS(model_type) ==
    CASE model_type = "classification" ->
            [accuracy |-> Rat(1, 4), precision |-> Rat(1, 4),
             recall |-> Rat(1, 4), f1_score |-> Rat(1, 4)]
      [] model_type = "regression" ->
            [r2_score |-> Rat(2, 5), mae |-> Rat(3, 10), rmse |-> Rat(3, 10)]
      [] model_type = "nlp" ->
            [bleu_score |-> Rat(2, 5), rouge_score |-> Rat(2, 5), perplexity |-> Rat(1, 5)]
      [] model_type = "cv" ->
            [accuracy |-> Rat(3, 10), iou |-> Rat(7, 20), dice_coefficient |-> Rat(7, 20)]

\* metric_name in ['mae', 'mse', 'rmse', 'perplexity']
LOWER_IS_BETTER == {"mae", "mse", "rmse", "perplexity"}

\* metric values are multiples of 1/8 from -1/8 up to MaxEighth/8, or NaN
MaxEighth == 9

\* entries of a rouge_score dict
MaxDict == 1

ScoreValues == {Reduce(k, 8) : k \in (-1)..MaxEighth} \cup {NaN}

\* the float fields of MetricsResult that a weight table names
FloatFields(model_type) == DOMAIN METRIC_WEIGHTS(model_type) \ {"rouge_score"}

\* rouge_score: Optional[Dict[str, float]], here the list of the dict's values
NoRouge == [present |-> FALSE, values |-> <<>>]

RougeScores(model_type) ==
    IF "rouge_score" \in DOMAIN METRIC_WEIGHTS(model_type)
    THEN {NoRouge} \cup
         { [present |-> TRUE, values |-> v] :
             v \in UNION { [1..n -> ScoreValues \ {NaN}] : n \in 0..MaxDict } }
    ELSE {NoRouge}

\* the calls for a task type: a MetricsResult (its float fields that are not
\* None, and rouge_score); fields outside the weight table are never read
ScoreCalls(mt) ==
    { [model_type |-> mt, metrics |-> m, rouge |-> r] :
        m \in UNION { [S -> ScoreValues] : S \in SUBSET FloatFields(mt) },
        r \in RougeScores(mt) }

\* metric_name in metrics_dict, for metrics.model_dump(exclude_none=True)
InMetricsDict(call, metric_name) ==
    IF metric_name = "rouge_score" THEN call.rouge.present
    ELSE metric_name \in DOMAIN call.metrics

\* value = metrics_dict[metric_name]; a dict value is replaced by its mean
MetricValue(call, metric_name) ==
    IF metric_name = "rouge_score" THEN Mean(call.rouge.values)
    ELSE call.metrics[metric_name]

\* the weighted metrics the loop finds in metrics_dict
PresentMetrics(call) ==
    { k \in DOMAIN METRIC_WEIGHTS(call.model_type) : InMetricsDict(call, k) }

\* normalized = 1 / (1 + value) if value >= 0 else 0   (lower is better)
\* normalized = min(max(value, 0), 1)                    (higher is better)
Normalize(metric_name, value) ==
    IF metric_name \in LOWER_IS_BETTER
    THEN IF Ge(value, Zero) THEN Div(One, Add(One, value)) ELSE Zero
    ELSE PyMin(PyMax(value, Zero), One)

normalized_metrics(call) ==
    [k \in PresentMetrics(call) |-> Normalize(k, MetricValue(call, k))]

\* total_score over the raw values, without the normalization
total_score_of_raw_values(call) ==
    LET weights == METRIC_WEIGHTS(call.model_type)
    IN SumOver([k \in PresentMetrics(call) |-> Mul(MetricValue(call, k), weights[k])],
               PresentMetrics(call))

\* total_score with the weights of the present metrics scaled up to sum to 1
total_score_renormalised(call) ==
    LET weights == METRIC_WEIGHTS(call.model_type)
        normalized == normalized_metrics(call)
        applied == SumOver(weights, PresentMetrics(call))
        total == SumOver([k \in PresentMetrics(call) |-> Mul(normalized[k], weights[k])],
                         PresentMetrics(call))
    IN IF applied = Zero THEN Zero ELSE Div(total, applied)

\* total_score += normalized * weight, over the metrics found
total_score(call) ==
    LET weights == METRIC_WEIGHTS(call.model_type)
        normalized == normalized_metrics(call)
    IN SumOver([k \in PresentMetrics(call) |-> Mul(normalized[k], weights[k])],
               PresentMetrics(call))

\* EvalScoreResult.eval_score: Field(ge=0, le=100)
ValidScore(score) == Ge(score, Zero) /\ Le(score, Hundred)

NoScore ==
    [kind |-> "none", type |-> NoValue, eval_score |-> Zero,
     normalized_metrics |-> <<>>, weight_distribution |-> <<>>]

\* pydantic's ValidationError, raised by the constructor of EvalScoreResult
ValidationError ==
    [kind |-> "raised", type |-> "ValidationError", eval_score |-> Zero,
     normalized_metrics |-> <<>>, weight_distribution |-> <<>>]

EvalScoreResult(eval_score, normalized, weights) ==
    [kind |-> "returned", type |-> NoValue, eval_score |-> eval_score,
     normalized_metrics |-> normalized, weight_distribution |-> weights]

ScoreInit ==
    /\ \E mt \in ModelType : scall \in ScoreCalls(mt)
    /\ spc = "call"
    /\ sres = NoScore

ScoreIdle ==
    /\ scall = [model_type |-> "classification", metrics |-> <<>>, rouge |-> NoRouge]
    /\ spc = "idle"
    /\ sres = NoScore

\* the whole of calculate_eval_score. The ge/le check of a NaN score depends
\* on the pydantic build: it raises, or it lets the NaN through
score_metrics ==
    /\ spc = "call"
    /\ spc' = "done"
    /\ \E s \in Round2(Mul(total_score(scall), Hundred)) :
          \/ /\ ValidScore(s) \/ IsNaN(s)
             /\ sres' = EvalScoreResult(s, normalized_metrics(scall),
                                        METRIC_WEIGHTS(scall.model_type))
          \/ /\ ~ValidScore(s)
             /\ sres' = ValidationError
    /\ UNCHANGED <<scall, evars, rvars, xvars, fvars, avars, mvars, nvars>>

(***************************************************************************)
(* The pipeline: a metric calculator of SMCPEngine, then                   *)
(* calculate_eval_score on the MetricsResult it returns                    *)
(***************************************************************************)
\* values of a score on the 0..1 scale: the worst, a middling, the best
UnitScores == {Zero, Rat(1, 2), One}

\* the float fields each calculator sets, with the values it can set them to:
\* evaluate_classification sets four scores; evaluate_regression mae, mse,
\* rmse = sqrt(mse) and r2_score; evaluate_nlp sacrebleu's score on the
\* 0..100 scale; evaluate_cv pixel_accuracy = iou = dice_coefficient, the
\* fraction of equal entries of y_test and y_pred
CalculatedFloats(model_type) ==
    CASE model_type = "classification" ->
            [{"accuracy", "precision", "recall", "f1_score"} -> UnitScores]
      [] model_type = "regression" ->
            { [mae |-> mae, mse |-> Mul(rmse, rmse), rmse |-> rmse, r2_score |-> r2] :
                mae \in UnitScores, rmse \in UnitScores, r2 \in UnitScores }
      [] model_type = "nlp" ->
            { [bleu_score |-> Mul(bleu, Hundred)] : bleu \in UnitScores }
      [] model_type = "cv" ->
            { [pixel_accuracy |-> accuracy, iou |-> accuracy,
               dice_coefficient |-> accuracy] : accuracy \in UnitScores }

\* rouge_score: evaluate_nlp sets the dict of rouge1, rouge2 and rougeL
CalculatedRouge(model_type) ==
    IF model_type = "nlp"
    THEN { [present |-> TRUE, values |-> v] : v \in [1..3 -> UnitScores] }
    ELSE {NoRouge}

PipelineInit ==
    /\ scall \in { [model_type |-> mt, metrics |-> <<>>, rouge |-> NoRouge] : mt \in ModelType }
    /\ spc = "metrics"
    /\ sres = NoScore

\* evaluate_classification, evaluate_regression, evaluate_nlp or evaluate_cv
\* returns its MetricsResult
calculate_metrics ==
    /\ spc = "metrics"
    /\ \E m \in CalculatedFloats(scall.model_type), r \in CalculatedRouge(scall.model_type) :
          scall' = [scall EXCEPT !.metrics = m, !.rouge = r]
    /\ spc' = "call"
    /\ UNCHANGED <<sres, evars, rvars, xvars, fvars, avars, mvars, nvars>>

PipelineNext == calculate_metrics \/ score_metrics

(***************************************************************************)
(* MetaEvaluator (services/meta_evaluator.py)                              *)
(***************************************************************************)
METRIC_WEIGHT == Rat(65, 100)

DATASET_WEIGHT == Rat(25, 100)

COMPLEXITY_WEIGHT == Rat(10, 100)

StatKeys ==
    {"n_rows", "n_features", "missing_values", "imbalance_ratio", "low_variance_fraction"}

\* what a private method hands back: a float, or the exception it raised
Value(v) == [kind |-> "value", v |-> v]

ZeroDivisionError == [kind |-> "raised", v |-> NaN]

\* missing_values / (n_rows * n_features), then min(missing_ratio * 100, 30).
\* The route passes missing_values as a numpy integer, whose division by zero
\* gives inf (nan for 0/0) with a warning; on Python numbers it raises
MissingPenalty(stats, numpy) ==
    LET n_rows == Get(stats, "n_rows", One)
        missing_values == Get(stats, "missing_values", Zero)
        cells == Mul(n_rows, Get(stats, "n_features", One))
    IN IF ~Gt(n_rows, Zero) THEN Value(Zero)
       ELSE IF cells = Zero
            THEN IF ~numpy THEN ZeroDivisionError
                 ELSE IF missing_values = Zero THEN Value(NaN)
                 ELSE Value(Rat(30, 1))
            ELSE Value(PyMin(Mul(Div(missing_values, cells), Hundred), Rat(30, 1)))

\* _calculate_dataset_health
calculate_dataset_health(stats, numpy) ==
    LET n_rows == Get(stats, "n_rows", One)
        penalty == MissingPenalty(stats, numpy)
        imbalance_ratio == Get(stats, "imbalance_ratio", Rat(1, 2))
        low_var_fraction == Get(stats, "low_variance_fraction", Zero)
        s1 == Sub(Hundred, penalty.v)
        s2 == IF Gt(imbalance_ratio, Rat(6, 10))
              THEN Sub(s1, Mul(Sub(imbalance_ratio, Rat(1, 2)), Rat(80, 1)))
              ELSE s1
        s3 == IF Lt(n_rows, Hundred)
              THEN Sub(s2, Mul(Sub(One, Div(n_rows, Hundred)), Rat(20, 1)))
              ELSE s2
        s4 == Sub(s3, Mul(low_var_fraction, Rat(10, 1)))
    IN IF penalty.kind = "raised" THEN ZeroDivisionError
       ELSE Value(PyMax(Zero, PyMin(Hundred, s4)))

\* _normalize_primary_metric
normalize_primary_metric(metrics, model_type) ==
    IF model_type = "classification"
    THEN IF "f1_score" \in DOMAIN metrics THEN Mul(metrics["f1_score"], Hundred)
         ELSE IF "accuracy" \in DOMAIN metrics THEN Mul(metrics["accuracy"], Hundred)
         ELSE Rat(50, 1)
    ELSE IF model_type = "regression"
    THEN IF "r2_score" \in DOMAIN metrics
         THEN Mul(PyMax(Zero, metrics["r2_score"]), Hundred)
         ELSE IF "mse" \in DOMAIN metrics /\ "mae" \in DOMAIN metrics
         THEN LET mse_norm == PyMax(Zero, Mul(Div(Sub(Rat(1, 10), metrics["mse"]), Rat(1, 10)), Hundred))
                  mae_norm == PyMax(Zero, Mul(Div(Sub(Rat(3, 10), metrics["mae"]), Rat(3, 10)), Hundred))
              IN Div(Add(mse_norm, mae_norm), Rat(2, 1))
         ELSE Rat(50, 1)
    ELSE Rat(50, 1)

\* train_metrics: None, or a dict; `not train_metrics` holds for None and {}
NoTrain == [given |-> FALSE, metrics |-> <<>>]

Train(metrics) == [given |-> TRUE, metrics |-> metrics]

Falsy(train) == ~train.given \/ DOMAIN train.metrics = {}

\* _calculate_complexity_adjustment
calculate_complexity_adjustment(test_metrics, train, model_type) ==
    IF Falsy(train) THEN Zero
    ELSE LET train_metric ==
                 IF model_type = "classification"
                 THEN Get(train.metrics, "f1_score", Get(train.metrics, "accuracy", Zero))
                 ELSE Get(train.metrics, "r2_score", Zero)
             test_metric ==
                 IF model_type = "classification"
                 THEN Get(test_metrics, "f1_score", Get(test_metrics, "accuracy", Zero))
                 ELSE Get(test_metrics, "r2_score", Zero)
             gap == RAbs(Sub(train_metric, test_metric))
         IN IF Gt(gap, Rat(1, 10))
            THEN Mul(Mul(Sub(Zero, gap), Hundred), Rat(3, 10))
            ELSE Zero

\* _calculate_meta_score
calculate_meta_score(primary_norm, dataset_health, complexity_adj) ==
    LET score == Add(Add(Mul(METRIC_WEIGHT, primary_norm),
                         Mul(DATASET_WEIGHT, dataset_health)),
                     Mul(COMPLEXITY_WEIGHT, Add(Hundred, complexity_adj)))
    IN PyMax(Zero, PyMin(Hundred, score))

\* flags.append(flag) if the condition holds
AppendIf(flags, cond, flag) == IF cond THEN Append(flags, flag) ELSE flags

\* _generate_flags
generate_flags(metrics, stats, train, model_type) ==
    LET missing_ratio == Div(Get(stats, "missing_values", Zero),
                             PyMax(One, Get(stats, "n_rows", One)))
        imbalance == Get(stats, "imbalance_ratio", Rat(1, 2))
        low_var == Get(stats, "low_variance_fraction", Zero)
        f1 == AppendIf(<<>>, Gt(missing_ratio, Rat(5, 100)), "high_missing_values")
        f2 == IF Gt(imbalance, Rat(7, 10)) THEN Append(f1, "severe_class_imbalance")
              ELSE IF Gt(imbalance, Rat(6, 10)) THEN Append(f1, "moderate_class_imbalance")
              ELSE f1
        f3 == AppendIf(f2, Lt(Get(stats, "n_rows", Zero), Hundred), "small_sample_size")
        f4 == AppendIf(f3, Gt(low_var, Rat(3, 10)), "many_low_variance_features")
        precision == Get(metrics, "precision", Zero)
        recall == Get(metrics, "recall", Zero)
        accuracy == Get(metrics, "accuracy", Zero)
        r2 == Get(metrics, "r2_score", Zero)
        f5 == IF model_type = "classification"
              THEN AppendIf(AppendIf(f4, Gt(RAbs(Sub(precision, recall)), Rat(15, 100)),
                                     "precision_recall_imbalance"),
                            Lt(accuracy, Rat(7, 10)), "low_accuracy")
              ELSE IF model_type = "regression"
              THEN AppendIf(AppendIf(f4, Lt(r2, Rat(1, 2)), "low_r2_score"),
                            Lt(r2, Zero), "negative_r2_warning")
              ELSE f4
        train_perf == IF model_type = "classification"
                      THEN Get(train.metrics, "accuracy", Zero)
                      ELSE Get(train.metrics, "r2_score", Zero)
        test_perf == IF model_type = "classification" THEN accuracy ELSE r2
        gap == Sub(train_perf, test_perf)
    IN IF Falsy(train) THEN f5
       ELSE IF Gt(gap, Rat(1, 10)) THEN Append(f5, "overfitting_detected")
       ELSE IF Gt(gap, Rat(5, 100)) THEN Append(f5, "mild_overfitting")
       ELSE f5

Recommendation(action, why, priority) ==
    [action |-> action, why |-> why, priority |-> priority]

\* the dict flag_recommendations of _generate_recommendations
flag_recommendations ==
    [ high_missing_values |->
        Recommendation("Handle missing values with imputation or removal",
                       "Missing values can bias model predictions", "high"),
      severe_class_imbalance |->
        Recommendation("Apply SMOTE or class weighting",
                       "Severe imbalance leads to biased predictions", "high"),
      moderate_class_imbalance |->
        Recommendation("Consider stratified sampling or cost-sensitive learning",
                       "Moderate imbalance may affect minority class performance", "medium"),
      small_sample_size |->
        Recommendation("Collect more data or use data augmentation",
                       "Small datasets lead to unreliable models", "high"),
      many_low_variance_features |->
        Recommendation("Remove or transform low-variance features",
                       "Low variance features don't contribute to predictions", "low"),
      precision_recall_imbalance |->
        Recommendation("Adjust classification threshold or rebalance classes",
                       "Imbalanced precision/recall indicates bias", "medium"),
      low_accuracy |->
        Recommendation("Try hyperparameter tuning or feature engineering",
                       "Low accuracy suggests model needs improvement", "high"),
      low_r2_score |->
        Recommendation("Feature engineering or try different model architecture",
                       "Low R2 indicates poor fit to data", "high"),
      negative_r2_warning |->
        Recommendation("Review model and data - model performs worse than baseline",
                       "Negative R2 means model is worse than predicting mean", "critical"),
      overfitting_detected |->
        Recommendation("Apply regularization or increase training data",
                       "Large train-test gap indicates overfitting", "high"),
      mild_overfitting |->
        Recommendation("Monitor train-test gap and consider validation",
                       "Slight overfitting may degrade generalization", "medium") ]

\* the recommendation appended when len(flags) == 0
MonitorDrift ==
    Recommendation("Monitor model drift periodically",
                   "Even good models degrade over time", "low")

\* for flag in flags: if flag in flag_recommendations: append
RECURSIVE LookUp(_)
LookUp(flags) ==
    IF flags = <<>> THEN <<>>
    ELSE IF Head(flags) \in DOMAIN flag_recommendations
         THEN <<flag_recommendations[Head(flags)]>> \o LookUp(Tail(flags))
         ELSE LookUp(Tail(flags))

\* the loop alone, without the recommendation added when no flag is raised
generate_recommendations_loop_only(flags) == LookUp(flags)

\* _generate_recommendations
generate_recommendations(flags) ==
    IF Len(flags) = 0 THEN <<MonitorDrift>> ELSE LookUp(flags)

\* a flag name, as the words its underscores separate
Words(flag) ==
    CASE flag = "high_missing_values" -> <<"high", "missing", "values">>
      [] flag = "severe_class_imbalance" -> <<"severe", "class", "imbalance">>
      [] flag = "moderate_class_imbalance" -> <<"moderate", "class", "imbalance">>
      [] flag = "small_sample_size" -> <<"small", "sample", "size">>
      [] flag = "many_low_variance_features" -> <<"many", "low", "variance", "features">>
      [] flag = "precision_recall_imbalance" -> <<"precision", "recall", "imbalance">>
      [] flag = "low_accuracy" -> <<"low", "accuracy">>
      [] flag = "low_r2_score" -> <<"low", "r2", "score">>
      [] flag = "negative_r2_warning" -> <<"negative", "r2", "warning">>
      [] flag = "overfitting_detected" -> <<"overfitting", "detected">>
      [] flag = "mild_overfitting" -> <<"mild", "overfitting">>

\* ['severe', 'critical', 'negative', 'low_accuracy']
CRITICAL == { <<"severe">>, <<"critical">>, <<"negative">>, <<"low", "accuracy">> }

\* x in f, on names made of whole words
Contains(f, x) ==
    \E i \in 1..Len(f) :
        i + Len(x) - 1 <= Len(f) /\ SubSeq(f, i, i + Len(x) - 1) = x

\* critical_flags = [f for f in flags if any(x in f for x in [...])]
critical_flags(flags) ==
    SelectSeq(flags, LAMBDA f : \E x \in CRITICAL : Contains(Words(f), x))

\* the if/elif chain over meta_score
StatusBand(meta_score) ==
    IF Ge(meta_score, Rat(85, 1)) THEN "production_ready"
    ELSE IF Ge(meta_score, Rat(70, 1)) THEN "production_ready_with_monitoring"
    ELSE IF Ge(meta_score, Rat(50, 1)) THEN "needs_improvement"
    ELSE "not_recommended"

Verdict(status, message, meta_score, critical, total) ==
    [status |-> status, message |-> message, confidence |-> meta_score,
     critical_issues |-> critical, total_issues |-> total]

\* the message that goes with a status of the chain
BandMessage(status) ==
    CASE status = "production_ready" -> "Model is production-ready with high confidence"
      [] status = "production_ready_with_monitoring" ->
            "Model is production-ready but requires monitoring"
      [] status = "needs_improvement" -> "Model needs improvements before production"
      [] status = "not_recommended" -> "Model not recommended for production use"

\* a verdict that follows the score alone
generate_verdict_band_only(meta_score, flags) ==
    Verdict(StatusBand(meta_score), BandMessage(StatusBand(meta_score)), meta_score,
            Len(critical_flags(flags)), Len(flags))

\* _generate_verdict
generate_verdict(meta_score, flags) ==
    IF Len(critical_flags(flags)) > 0
    THEN Verdict("needs_improvement", "Critical issues detected - address before deployment",
                 meta_score, Len(critical_flags(flags)), Len(flags))
    ELSE Verdict(StatusBand(meta_score), BandMessage(StatusBand(meta_score)), meta_score,
                 Len(critical_flags(flags)), Len(flags))

NoVerdict == Verdict(NoValue, NoValue, Zero, 0, 0)

\* the dict evaluate returns: its rounded figures
NoReturned ==
    [meta_score |-> Zero, dataset_health_score |-> Zero,
     primary_metric_normalized |-> Zero, model_complexity_adjustment |-> Zero]

NoMeta ==
    [kind |-> "none", dataset_health |-> Zero, primary_metric_norm |-> Zero,
     complexity_adj |-> Zero, meta_score |-> Zero, flags |-> <<>>,
     recommendations |-> <<>>, verdict |-> NoVerdict, returned |-> NoReturned]

(***************************************************************************)
(* Inputs of the meta evaluator                                            *)
(***************************************************************************)
\* n_rows is a multiple of 25, missing_values a multiple of 5
MaxRowBlocks == 4

MaxFeatures == 2

MaxMissingBlocks == 3

StatValues(key) ==
    CASE key = "n_rows" -> { Rat(25 * k, 1) : k \in 0..MaxRowBlocks }
      [] key = "n_features" -> { Rat(k, 1) : k \in 0..MaxFeatures }
      [] key = "missing_values" -> { Rat(5 * k, 1) : k \in 0..MaxMissingBlocks }
      [] key = "imbalance_ratio" -> { Reduce(k, 8) : k \in 4..8 }
      [] key = "low_variance_fraction" -> { Zero, Rat(1, 2), One }

FullStats ==
    [ n_rows : StatValues("n_rows"),
      n_features : StatValues("n_features"),
      missing_values : StatValues("missing_values"),
      imbalance_ratio : StatValues("imbalance_ratio"),
      low_variance_fraction : StatValues("low_variance_fraction") ]

\* dataset_stats without the keys in `absent`
DatasetStats(absent) == { [j \in StatKeys \ absent |-> s[j]] : s \in FullStats }

\* the statistics the route computes for four datasets: a clean one, one with
\* gaps and a mild imbalance, a severely imbalanced one; and an empty dict
MetaStats ==
    { [n_rows |-> Rat(100, 1), n_features |-> Rat(2, 1), missing_values |-> Zero,
       imbalance_ratio |-> Rat(1, 2), low_variance_fraction |-> Zero],
      [n_rows |-> Rat(50, 1), n_features |-> One, missing_values |-> Rat(5, 1),
       imbalance_ratio |-> Rat(5, 8), low_variance_fraction |-> Rat(1, 2)],
      [n_rows |-> Rat(100, 1), n_features |-> Rat(2, 1), missing_values |-> Zero,
       imbalance_ratio |-> Rat(3, 4), low_variance_fraction |-> Zero],
      <<>> }

\* metric values in sixteenths
Sixteenths(ks) == { Reduce(k, 16) : k \in ks }

\* dicts with any of the keys, each key with one of its values
Dicts(keys, values(_)) ==
    UNION { { m \in [S -> UNION { values(k) : k \in keys }] :
                \A k \in S : m[k] \in values(k) } :
            S \in SUBSET keys }

TestValues(key) ==
    CASE key \in {"accuracy", "f1_score"} -> Sixteenths({4, 11, 12, 16})
      [] key \in {"precision", "recall"} -> Sixteenths({12, 16})
      [] key = "r2_score" -> Sixteenths({-4, 4, 11, 12, 16})
      [] key \in {"mse", "mae"} -> Sixteenths({1, 4})

TrainValues(key) == Sixteenths({12, 13, 16})

MetricKeys(model_type) ==
    IF model_type = "classification"
    THEN {"accuracy", "precision", "recall", "f1_score"}
    ELSE {"r2_score", "mse", "mae"}

TrainKeys(model_type) ==
    IF model_type = "classification" THEN {"accuracy", "f1_score"} ELSE {"r2_score"}

\* the route passes "classification" or "regression"
MetaTypes == {"classification", "regression"}

MetaCalls(mt) ==
    { [model_type |-> mt, metrics |-> m, stats |-> s, train |-> t, numpy |-> TRUE] :
        m \in Dicts(MetricKeys(mt), TestValues),
        s \in MetaStats,
        t \in {NoTrain} \cup { Train(d) : d \in Dicts(TrainKeys(mt), TrainValues) } }

\* calls of _calculate_dataset_health on statistics with every key or with
\* one key absent, held as Python numbers or as numpy numbers
HealthCalls(numpy) ==
    { [model_type |-> "classification", metrics |-> <<>>, stats |-> s,
       train |-> NoTrain, numpy |-> numpy] :
        s \in UNION { DatasetStats(absent) : absent \in {{}} \cup { {k} : k \in StatKeys } } }

MetaInit ==
    /\ \E mt \in MetaTypes : mcall \in MetaCalls(mt)
    /\ mpc = "health"
    /\ mres = NoMeta

HealthInit ==
    /\ \E numpy \in BOOLEAN : mcall \in HealthCalls(numpy)
    /\ mpc = "health"
    /\ mres = NoMeta

MetaIdle ==
    /\ mcall = [model_type |-> "classification", metrics |-> <<>>, stats |-> <<>>,
                train |-> NoTrain, numpy |-> TRUE]
    /\ mpc = "idle"
    /\ mres = NoMeta

(***************************************************************************)
(* MetaEvaluator.evaluate, one action per step                             *)
(***************************************************************************)
notm == <<evars, rvars, xvars, fvars, avars, cvars, nvars>>

\* Step 1; an exception is logged and re-raised by evaluate
step_dataset_health ==
    /\ mpc = "health"
    /\ LET h == calculate_dataset_health(mcall.stats, mcall.numpy)
       IN IF h.kind = "raised"
          THEN mpc' = "raised" /\ mres' = [mres EXCEPT !.kind = "raised"]
          ELSE mpc' = "primary" /\ mres' = [mres EXCEPT !.dataset_health = h.v]
    /\ UNCHANGED <<mcall, notm>>

\* Step 2
step_primary_metric ==
    /\ mpc = "primary"
    /\ mres' = [mres EXCEPT !.primary_metric_norm =
                    normalize_primary_metric(mcall.metrics, mcall.model_type)]
    /\ mpc' = "complexity"
    /\ UNCHANGED <<mcall, notm>>

\* Step 3
step_complexity ==
    /\ mpc = "complexity"
    /\ mres' = [mres EXCEPT !.complexity_adj =
                    calculate_complexity_adjustment(mcall.metrics, mcall.train,
                                                    mcall.model_type)]
    /\ mpc' = "meta_score"
    /\ UNCHANGED <<mcall, notm>>

\* Step 4
step_meta_score ==
    /\ mpc = "meta_score"
    /\ mres' = [mres EXCEPT !.meta_score =
                    calculate_meta_score(mres.primary_metric_norm, mres.dataset_health,
                                         mres.complexity_adj)]
    /\ mpc' = "flags"
    /\ UNCHANGED <<mcall, notm>>

\* Step 5, first half
step_flags ==
    /\ mpc = "flags"
    /\ mres' = [mres EXCEPT !.flags =
                    generate_flags(mcall.metrics, mcall.stats, mcall.train,
                                   mcall.model_type)]
    /\ mpc' = "recommendations"
    /\ UNCHANGED <<mcall, notm>>

\* Step 5, second half
step_recommendations ==
    /\ mpc = "recommendations"
    /\ mres' = [mres EXCEPT !.recommendations = generate_recommendations(mres.flags)]
    /\ mpc' = "verdict"
    /\ UNCHANGED <<mcall, notm>>

\* Step 6, and the dict returned, its figures rounded to two decimals
step_verdict ==
    /\ mpc = "verdict"
    /\ \E ms \in Round2(mres.meta_score), dh \in Round2(mres.dataset_health),
          pm \in Round2(mres.primary_metric_norm), ca \in Round2(mres.complexity_adj) :
          mres' = [mres EXCEPT
                     !.kind = "returned",
                     !.verdict = generate_verdict(mres.meta_score, mres.flags),
                     !.returned = [meta_score |-> ms, dataset_health_score |-> dh,
                                   primary_metric_normalized |-> pm,
                                   model_complexity_adjustment |-> ca]]
    /\ mpc' = "returned"
    /\ UNCHANGED <<mcall, notm>>

MetaNext ==
    \/ step_dataset_health
    \/ step_primary_metric
    \/ step_complexity
    \/ step_meta_score
    \/ step_flags
    \/ step_recommendations
    \/ step_verdict

(***************************************************************************)
(* ExplainabilityEngine.explain_model (services/explainability.py)         *)
(***************************************************************************)
\* the techniques, in the order explain_model reaches them
TECHNIQUES == <<"SHAP", "LIME", "basic">>

\* the explainer classes _get_shap_explainer tries, in source order
EXPLAINERS == <<"TreeExplainer", "KernelExplainer", "LinearExplainer">>

\* the engine's import flags, and what each library call does on the model
\* and data of the call
ExplainCalls ==
    [ shap_available : BOOLEAN,
      lime_available : BOOLEAN,
      sampling : {"ok", "raises"},            \* X_train[:min(max_samples, len(X_train))]
      explainers : SUBSET (1..Len(EXPLAINERS)), \* constructors that accept the model
      shap_values : {"ok", "raises"},         \* explainer.shap_values(X_test) and what follows
      lime : {"ok", "raises"},                \* the body of _explain_with_lime
      basic : {"list", "empty", "none", "raises"} ]  \* _get_basic_feature_importance

\* what a technique hands back: None, or the entries it adds to `results`
NoExplanation ==
    [some |-> FALSE, feature_importance |-> NoValue, shap_summary |-> NoValue,
     explainer_type |-> NoValue, lime_explanations |-> NoValue]

\* _get_shap_explainer: the first class whose constructor does not raise
get_shap_explainer(call) ==
    IF call.explainers = {} THEN NoValue
    ELSE EXPLAINERS[CHOOSE i \in call.explainers : \A j \in call.explainers : i <= j]

\* _explain_with_shap: None without an explainer and on any exception
explain_with_shap(call) ==
    IF get_shap_explainer(call) = NoValue \/ call.shap_values = "raises"
    THEN NoExplanation
    ELSE [some |-> TRUE, feature_importance |-> "SHAP", shap_summary |-> "SHAP",
          explainer_type |-> get_shap_explainer(call), lime_explanations |-> NoValue]

\* _explain_with_lime: None on any exception
explain_with_lime(call) ==
    IF call.lime = "raises" THEN NoExplanation
    ELSE [some |-> TRUE, feature_importance |-> "LIME", shap_summary |-> NoValue,
          explainer_type |-> NoValue, lime_explanations |-> "LIME"]

\* _get_basic_feature_importance: the ranked list (empty for a model of no
\* features), or None without the attributes, on a length mismatch and on
\* any exception
get_basic_feature_importance(call) ==
    IF call.basic \in {"none", "raises"} THEN NoExplanation
    ELSE [some |-> TRUE,
          feature_importance |-> IF call.basic = "list" THEN "basic" ELSE "empty",
          shap_summary |-> NoValue, explainer_type |-> NoValue,
          lime_explanations |-> NoValue]

\* the dict `results` as explain_model creates it
NewResults ==
    [kind |-> "none", method_used |-> NoValue, error |-> NoValue,
     feature_importance |-> NoValue, shap_summary |-> NoValue,
     explainer_type |-> NoValue, lime_explanations |-> NoValue]

\* results.update(r); results["method_used"] = method
Update(results, r, method) ==
    [results EXCEPT !.method_used = method,
                    !.feature_importance = r.feature_importance,
                    !.shap_summary = IF r.shap_summary # NoValue THEN r.shap_summary ELSE @,
                    !.explainer_type = IF r.explainer_type # NoValue THEN r.explainer_type ELSE @,
                    !.lime_explanations =
                        IF r.lime_explanations # NoValue THEN r.lime_explanations ELSE @]

\* return results
ReturnResults(results) ==
    /\ xpc' = "returned"
    /\ xres' = [results EXCEPT !.kind = "returned"]

\* an except clause that lets the exception through
CaughtReraised(results, e) == [results EXCEPT !.kind = "raised"]

\* except Exception as e: results["error"] = str(e), then return results
Caught(results, e) == [results EXCEPT !.kind = "returned", !.error = e]

ExplainInit ==
    /\ xcall \in ExplainCalls
    /\ xpc = "sample"
    /\ xran = <<>>
    /\ xres = NewResults

ExplainIdle ==
    /\ xcall = [shap_available |-> FALSE, lime_available |-> FALSE, sampling |-> "ok",
                explainers |-> {}, shap_values |-> "ok", lime |-> "ok", basic |-> "none"]
    /\ xpc = "idle"
    /\ xran = <<>>
    /\ xres = NewResults

notx == <<evars, rvars, fvars, avars, mvars, cvars, nvars>>

\* X_train_sample, X_test_sample
sample_inputs ==
    /\ xpc = "sample"
    /\ IF xcall.sampling = "raises"
       THEN xpc' = "returned" /\ xres' = Caught(xres, "str(e)")
       ELSE xpc' = "shap" /\ UNCHANGED xres
    /\ UNCHANGED <<xcall, xran, notx>>

\* the SHAP block with its `return results` left out
explain_model_shap_no_return ==
    /\ xpc = "shap"
    /\ xpc' = "lime"
    /\ IF xcall.shap_available
       THEN /\ xran' = Append(xran, "SHAP")
            /\ xres' = IF explain_with_shap(xcall).some
                       THEN Update(xres, explain_with_shap(xcall), "SHAP")
                       ELSE xres
       ELSE UNCHANGED <<xran, xres>>
    /\ UNCHANGED <<xcall, notx>>

\* if self.shap_available: ... if shap_results: ... return results
explain_model_shap ==
    /\ xpc = "shap"
    /\ IF xcall.shap_available
       THEN /\ xran' = Append(xran, "SHAP")
            /\ IF explain_with_shap(xcall).some
               THEN ReturnResults(Update(xres, explain_with_shap(xcall), "SHAP"))
               ELSE xpc' = "lime" /\ UNCHANGED xres
       ELSE xpc' = "lime" /\ UNCHANGED <<xran, xres>>
    /\ UNCHANGED <<xcall, notx>>

\* if self.lime_available: ... if lime_results: ... return results
explain_model_lime ==
    /\ xpc = "lime"
    /\ IF xcall.lime_available
       THEN /\ xran' = Append(xran, "LIME")
            /\ IF explain_with_lime(xcall).some
               THEN ReturnResults(Update(xres, explain_with_lime(xcall), "LIME"))
               ELSE xpc' = "basic" /\ UNCHANGED xres
       ELSE xpc' = "basic" /\ UNCHANGED <<xran, xres>>
    /\ UNCHANGED <<xcall, notx>>

\* basic_importance = ...; if basic_importance: ... return results
\* results["error"] = "No explainability method available"; return results
explain_model_basic ==
    /\ xpc = "basic"
    /\ xran' = Append(xran, "basic")
    /\ LET r == get_basic_feature_importance(xcall)
       IN IF r.some /\ r.feature_importance # "empty"
          THEN ReturnResults([xres EXCEPT !.feature_importance = r.feature_importance,
                                          !.method_used = "basic"])
          ELSE ReturnResults([xres EXCEPT !.error = "No explainability method available"])
    /\ UNCHANGED <<xcall, notx>>

ExplainNext ==
    \/ sample_inputs
    \/ explain_model_shap
    \/ explain_model_lime
    \/ explain_model_basic

(***************************************************************************)
(* FairnessEngine.analyze_fairness (services/fairness.py)                  *)
(***************************************************************************)
\* values of the sensitive attribute, in sorted order
GROUPS == <<"A", "B", "C">>

\* rows of the test split
MaxFairRows == 3

\* the statements of the try block that can raise: np.unique on a column of
\* mixed types, the sklearn scores on labels that are not binary, np.mean
FairnessSteps == {"unique", "group_metrics", "fairness_metrics", "overall_score"}

FairnessCalls ==
    [ model_type : {"classification", "regression"},
      sensitive_attr : UNION { [1..n -> {GROUPS[i] : i \in 1..Len(GROUPS)}] : n \in 0..MaxFairRows },
      raises : {NoValue} \cup FairnessSteps ]

\* np.unique: the distinct values, sorted
unique(sensitive_attr) ==
    SelectSeq(GROUPS, LAMBDA g : \E i \in 1..Len(sensitive_attr) : sensitive_attr[i] = g)

\* _compute_group_metrics: one entry per group, with the group's sample count
compute_group_metrics(sensitive_attr, unique_groups) ==
    [ i \in 1..Len(unique_groups) |->
        [ group |-> unique_groups[i],
          sample_count |-> Cardinality({ j \in 1..Len(sensitive_attr) :
                                           sensitive_attr[j] = unique_groups[i] }) ] ]

\* _compute_fairness_metrics: the keys of the dict it returns
compute_fairness_metrics(unique_groups) ==
    IF Len(unique_groups) < 2 THEN {}
    ELSE {"demographic_parity_difference", "equal_opportunity_difference",
          "disparate_impact_ratio", "statistical_parity", "predictive_parity",
          "equalized_odds_difference"}

FairnessResult(fairness_metrics, group_metrics, sensitive_attribute, num_groups, ok) ==
    [fairness_metrics |-> fairness_metrics, group_metrics |-> group_metrics,
     sensitive_attribute |-> sensitive_attribute, num_groups |-> num_groups,
     analysis_successful |-> ok]

NoWork == [unique_groups |-> <<>>, group_metrics |-> <<>>, fairness_metrics |-> {}]

\* a failure result that keeps what the call had computed so far
empty_result_keeps_work ==
    FairnessResult(fwork.fairness_metrics, fwork.group_metrics, NoValue,
                   Len(fwork.unique_groups), FALSE)

\* _empty_result
empty_result == FairnessResult({}, <<>>, NoValue, 0, FALSE)

NoFairness == [kind |-> "none", value |-> FairnessResult({}, <<>>, NoValue, 0, FALSE)]

FairnessInit ==
    /\ fcall \in FairnessCalls
    /\ fpc = "guard"
    /\ fwork = NoWork
    /\ fres = NoFairness

FairnessIdle ==
    /\ fcall = [model_type |-> "classification", sensitive_attr |-> <<>>, raises |-> NoValue]
    /\ fpc = "idle"
    /\ fwork = NoWork
    /\ fres = NoFairness

notf == <<evars, rvars, xvars, avars, mvars, cvars, nvars>>

\* return self._empty_result(), from the guards and from the except clause
ReturnEmpty ==
    /\ fpc' = "returned"
    /\ fres' = [kind |-> "returned", value |-> empty_result]

\* the task-type guard, np.unique, the two-groups guard
fairness_guards ==
    /\ fpc = "guard"
    /\ IF fcall.model_type # "classification" \/ fcall.raises = "unique"
       THEN ReturnEmpty /\ UNCHANGED fwork
       ELSE /\ fwork' = [fwork EXCEPT !.unique_groups = unique(fcall.sensitive_attr)]
            /\ IF Len(fwork'.unique_groups) < 2
               THEN ReturnEmpty
               ELSE fpc' = "group_metrics" /\ UNCHANGED fres
    /\ UNCHANGED <<fcall, notf>>

\* group_metrics = self._compute_group_metrics(...)
fairness_group_metrics ==
    /\ fpc = "group_metrics"
    /\ IF fcall.raises = "group_metrics"
       THEN ReturnEmpty /\ UNCHANGED fwork
       ELSE /\ fwork' = [fwork EXCEPT !.group_metrics =
                            compute_group_metrics(fcall.sensitive_attr, fwork.unique_groups)]
            /\ fpc' = "fairness_metrics"
            /\ UNCHANGED fres
    /\ UNCHANGED <<fcall, notf>>

\* fairness_metrics = self._compute_fairness_metrics(...)
fairness_fairness_metrics ==
    /\ fpc = "fairness_metrics"
    /\ IF fcall.raises = "fairness_metrics"
       THEN ReturnEmpty /\ UNCHANGED fwork
       ELSE /\ fwork' = [fwork EXCEPT !.fairness_metrics =
                            compute_fairness_metrics(fwork.unique_groups)]
            /\ fpc' = "overall_score"
            /\ UNCHANGED fres
    /\ UNCHANGED <<fcall, notf>>

\* overall_score = ...; fairness_metrics['overall_fairness_score'] = ...; return {...}
fairness_overall_score ==
    /\ fpc = "overall_score"
    /\ IF fcall.raises = "overall_score"
       THEN ReturnEmpty /\ UNCHANGED fwork
       ELSE /\ fwork' = [fwork EXCEPT !.fairness_metrics = @ \cup {"overall_fairness_score"}]
            /\ fpc' = "returned"
            /\ fres' = [kind |-> "returned",
                        value |-> FairnessResult(fwork'.fairness_metrics, fwork.group_metrics,
                                                 "sensitive_feature",
                                                 Len(fwork.unique_groups), TRUE)]
    /\ UNCHANGED <<fcall, notf>>

FairnessNext ==
    \/ fairness_guards
    \/ fairness_group_metrics
    \/ fairness_fairness_metrics
    \/ fairness_overall_score

(***************************************************************************)
(* evaluate_model (routes/evaluation.py): the sensitive attribute column   *)
(***************************************************************************)
\* a column name: its text in lower case without surrounding blanks, whether
\* it is written with surrounding blanks, whether with capitals
Name(text, pad, caps) == [text |-> text, pad |-> pad, caps |-> caps]

\* None, and the empty string
NoName == Name(NoValue, FALSE, FALSE)

\* str.strip()
strip(name) == [name EXCEPT !.pad = FALSE]

\* str.lower()
lower(name) == [name EXCEPT !.caps = FALSE]

\* Settings.SENSITIVE_ATTRIBUTES, split at the commas
SENSITIVE_ATTRIBUTES ==
    {"gender", "race", "sex", "age_group", "ethnicity", "protected_attribute"}

\* Settings.sensitive_attributes: each entry stripped and lowered
sensitive_attributes ==
    { lower(strip(Name(s, FALSE, FALSE))) : s \in SENSITIVE_ATTRIBUTES }

\* column names of the datasets: gender, Gender, " race ", dept
ColumnPool ==
    { Name("gender", FALSE, FALSE), Name("gender", FALSE, TRUE),
      Name("race", TRUE, FALSE), Name("dept", FALSE, FALSE) }

\* request.sensitive_attribute: None, a column's name, " dept ", a name of no column
RequestNames ==
    {NoName} \cup ColumnPool \cup {Name("dept", TRUE, FALSE), Name("zip", FALSE, FALSE)}

\* dataset["sensitive_attribute"] and dataset["metadata"]["sensitive_attribute"]
StoredNames ==
    { NoName, Name("gender", FALSE, FALSE), Name("race", TRUE, FALSE),
      Name("zip", FALSE, FALSE) }

MaxColumns == 2

MaxNonNull == 1

\* df.columns (distinct names, in order) with each column's non-null count
DataFrames ==
    UNION { { [columns |-> c, non_null |-> nn] :
                c \in { s \in [1..n -> ColumnPool] : \A i, j \in 1..n : i # j => s[i] # s[j] },
                nn \in [1..n -> 0..MaxNonNull] } :
            n \in 1..MaxColumns }

\* the requests on a dataset with the frame df
AttrCalls(df) ==
    [ request : RequestNames, dataset_field : StoredNames, metadata_field : StoredNames,
      df : {df} ]

\* name in df.columns
InColumns(name, df) == \E i \in 1..Len(df.columns) : df.columns[i] = name

\* int(df[c].notnull().sum())
NonNull(df, c) == df.non_null[CHOOSE i \in 1..Len(df.columns) : df.columns[i] = c]

\* the columns whose stripped, lowered name is in the configured list
Candidates(df) == SelectSeq(df.columns, LAMBDA col : lower(strip(col)) \in sensitive_attributes)

\* the loop over the candidates: `non_null > best_non_null` keeps the first of
\* the candidates with the largest count
BestCandidate(df, candidates) ==
    candidates[CHOOSE i \in 1..Len(candidates) :
                  /\ \A j \in 1..Len(candidates) :
                        NonNull(df, candidates[j]) <= NonNull(df, candidates[i])
                  /\ \A j \in 1..(i - 1) :
                        NonNull(df, candidates[j]) < NonNull(df, candidates[i])]

NoResolution == [col |-> NoName, source |-> NoValue, fairness |-> "pending"]

AttrInit ==
    /\ \E df \in DataFrames : acall \in AttrCalls(df)
    /\ apc = "request"
    /\ aconsulted = <<>>
    /\ ares = NoResolution

AttrIdle ==
    /\ acall = [request |-> NoName, dataset_field |-> NoName, metadata_field |-> NoName,
                df |-> [columns |-> <<Name("dept", FALSE, FALSE)>>, non_null |-> <<0>>]]
    /\ apc = "idle"
    /\ aconsulted = <<>>
    /\ ares = NoResolution

nota == <<evars, rvars, xvars, fvars, mvars, cvars, nvars>>

Resolved(col, source) == ares' = [ares EXCEPT !.col = col, !.source = source]

\* 1) explicit from request
resolve_from_request ==
    /\ apc = "request"
    /\ aconsulted' = Append(aconsulted, "request")
    /\ IF acall.request # NoName /\ InColumns(strip(acall.request), acall.df)
       THEN Resolved(strip(acall.request), "request")
       ELSE UNCHANGED ares
    /\ apc' = "dataset"
    /\ UNCHANGED <<acall, nota>>

\* 2) dataset metadata: the top-level key, else the key of the metadata json
resolve_from_dataset ==
    /\ apc = "dataset"
    /\ IF ares.col # NoName
       THEN UNCHANGED <<aconsulted, ares>>
       ELSE IF acall.dataset_field # NoName /\ InColumns(acall.dataset_field, acall.df)
       THEN /\ aconsulted' = Append(aconsulted, "dataset_field")
            /\ Resolved(acall.dataset_field, "dataset_field")
       ELSE /\ aconsulted' = aconsulted \o <<"dataset_field", "dataset_metadata">>
            /\ IF acall.metadata_field # NoName /\ InColumns(acall.metadata_field, acall.df)
               THEN Resolved(acall.metadata_field, "dataset_metadata")
               ELSE UNCHANGED ares
    /\ apc' = "configured"
    /\ UNCHANGED <<acall, nota>>

\* 3) configured sensitive attributes list from settings
resolve_from_configured ==
    /\ apc = "configured"
    /\ IF ares.col # NoName
       THEN UNCHANGED <<aconsulted, ares>>
       ELSE /\ aconsulted' = Append(aconsulted, "configured")
            /\ IF Len(Candidates(acall.df)) = 0
               THEN UNCHANGED ares
               ELSE IF Len(Candidates(acall.df)) = 1
               THEN Resolved(Candidates(acall.df)[1], "configured")
               ELSE Resolved(BestCandidate(acall.df, Candidates(acall.df)), "configured")
    /\ apc' = "fairness"
    /\ UNCHANGED <<acall, nota>>

\* 4) if sensitive_attr_col: the fairness analysis  else: fairness_result = None
run_or_skip_fairness ==
    /\ apc = "fairness"
    /\ ares' = [ares EXCEPT !.fairness = IF ares.col # NoName THEN "run" ELSE "skipped"]
    /\ apc' = "done"
    /\ UNCHANGED <<acall, aconsulted, nota>>

AttrNext ==
    \/ resolve_from_request
    \/ resolve_from_dataset
    \/ resolve_from_configured
    \/ run_or_skip_fairness

(***************************************************************************)
(* ExplainabilityEngine.explain_prediction (services/explainability.py)    *)
(* on a call of the same shape: `sampling` stands for the reshape of the   *)
(* sample and the model's predict, the first statements of the try block   *)
(***************************************************************************)
\* result = {"prediction": ..., "probabilities": ..., "feature_contributions": [],
\* "method": None}; method is held in method_used, the contributions in
\* feature_importance
NewPrediction == [NewResults EXCEPT !.kind = "prediction"]

PredictInit ==
    /\ xcall \in ExplainCalls
    /\ xpc = "predict"
    /\ xran = <<>>
    /\ xres = NewResults

\* sample.reshape, model.predict, model.predict_proba; the outer except
\* returns {"error": str(e)}
predict_sample ==
    /\ xpc = "predict"
    /\ IF xcall.sampling = "raises"
       THEN xpc' = "returned" /\ xres' = Caught(xres, "str(e)")
       ELSE xpc' = "predict_shap" /\ xres' = NewPrediction
    /\ UNCHANGED <<xcall, xran, notx>>

\* if self.shap_available: try: explainer = ...; if explainer: ... return result
explain_prediction_shap ==
    /\ xpc = "predict_shap"
    /\ IF xcall.shap_available
       THEN /\ xran' = Append(xran, "SHAP")
            /\ IF get_shap_explainer(xcall) # NoValue /\ xcall.shap_values = "ok"
               THEN ReturnResults([xres EXCEPT !.feature_importance = "SHAP",
                                               !.method_used = "SHAP"])
               ELSE xpc' = "predict_lime" /\ UNCHANGED xres
       ELSE xpc' = "predict_lime" /\ UNCHANGED <<xran, xres>>
    /\ UNCHANGED <<xcall, notx>>

\* if self.lime_available: try: ... return result
\* result["error"] = "No explainability method available"; return result
explain_prediction_lime ==
    /\ xpc = "predict_lime"
    /\ IF xcall.lime_available
       THEN /\ xran' = Append(xran, "LIME")
            /\ IF xcall.lime = "ok"
               THEN ReturnResults([xres EXCEPT !.feature_importance = "LIME",
                                               !.method_used = "LIME"])
               ELSE ReturnResults([xres EXCEPT
                                     !.error = "No explainability method available"])
       ELSE /\ ReturnResults([xres EXCEPT !.error = "No explainability method available"])
            /\ UNCHANGED xran
    /\ UNCHANGED <<xcall, notx>>

PredictNext ==
    \/ predict_sample
    \/ explain_prediction_shap
    \/ explain_prediction_lime

(***************************************************************************)
(* The ranked feature importance list of _explain_with_shap,               *)
(* _explain_with_lime and _get_basic_feature_importance                    *)
(***************************************************************************)
\* features of the model
MaxRanked == 3

\* importances are 0..MaxImportance
MaxImportance == 2

\* the technique, and feature_importance: one non-negative number per feature
RankCalls(n) ==
    [ technique : {TECHNIQUES[i] : i \in 1..Len(TECHNIQUES)},
      importance : [1..n -> 0..MaxImportance] ]

\* np.argsort(feature_importance): the indices in ascending order of their
\* values. The default sort kind is not stable: what order equal values come
\* out in depends on the numpy build and the array length
argsort(importance) ==
    { p \in [DOMAIN importance -> DOMAIN importance] :
        /\ \A i, j \in DOMAIN importance : i # j => p[i] # p[j]
        /\ \A i, j \in DOMAIN importance : i < j => importance[p[i]] <= importance[p[j]] }

\* sorted_indices[::-1]
Reversed(p) == [i \in DOMAIN p |-> p[Len(p) + 1 - i]]

\* [{"feature": feature_names[i], "importance": ..., "rank": rank + 1}
\*  for rank, i in enumerate(sorted_indices)]; a feature is held by its index
importance_list(importance, sorted_indices) ==
    [ k \in DOMAIN sorted_indices |->
        [feature |-> sorted_indices[k], importance |-> importance[sorted_indices[k]],
         rank |-> k] ]

RankInit ==
    /\ \E n \in 1..MaxRanked : icall \in RankCalls(n)
    /\ ipc = "call"
    /\ ires = <<>>

RankIdle ==
    /\ icall = [technique |-> "basic", importance |-> <<>>]
    /\ ipc = "idle"
    /\ ires = <<>>

\* sorted_indices = np.argsort(feature_importance)[::-1], then the list
rank_features ==
    /\ ipc = "call"
    /\ \E p \in argsort(icall.importance) :
          ires' = importance_list(icall.importance, Reversed(p))
    /\ ipc' = "done"
    /\ UNCHANGED <<icall, evars, rvars, xvars, fvars, avars, mvars, cvars, hvars, tvars, pvars>>

(***************************************************************************)
(* FairnessEngine.analyze_fairness on two inputs that differ only in the   *)
(* samples of the groups after the first two                               *)
(***************************************************************************)
\* class labels of the test split
CLASSES == {0, 1, 2}

\* classes the model predicts
PREDICTIONS == {0, 1}

\* one row of the test split: sensitive_attr, y_true, y_pred
Samples(groups) == [g : groups, y_true : CLASSES, y_pred : PREDICTIONS]

\* rows of the groups after the first two
MaxOtherRows == 1

\* one sample of each of the first two groups, and n samples of the third
\* group with their labels and predictions in the one and in the other input
PairCalls(n) ==
    [ first_two : { r \in [1..2 -> Samples({GROUPS[1], GROUPS[2]})] : r[1].g # r[2].g },
      others : [1..n -> Samples({GROUPS[3]})],
      others_alt : [1..n -> Samples({GROUPS[3]})] ]

\* y_true, y_pred and sensitive_attr of the first and of the second call
InputOf(call, which) ==
    call.first_two \o (IF which = 1 THEN call.others ELSE call.others_alt)

\* the column sensitive_attr
SensitiveAttr(rows) == [i \in 1..Len(rows) |-> rows[i].g]

\* y_true[mask], y_pred[mask] for mask = (sensitive_attr == group)
Masked(rows, group) == SelectSeq(rows, LAMBDA r : r.g = group)

\* np.mean(y_pred) if len(y_pred) > 0 else 0
MeanPrediction(rows) ==
    IF rows = <<>> THEN Zero ELSE Mean([i \in 1..Len(rows) |-> Rat(rows[i].y_pred, 1)])

\* sklearn's precision_score, recall_score and f1_score with average='binary'
\* and pos_label=1 raise ValueError on a multiclass target, and on a target
\* of two labels neither of which is 1
ScorerRaises(rows) ==
    LET present == { rows[i].y_true : i \in 1..Len(rows) } \cup
                   { rows[i].y_pred : i \in 1..Len(rows) }
    IN \/ Cardinality(present) >= 3
       \/ Cardinality(present) = 2 /\ 1 \notin present

\* precision_score(y_true, y_pred, zero_division=0)
precision_score(rows) ==
    LET predicted == SelectSeq(rows, LAMBDA r : r.y_pred = 1)
        hits == SelectSeq(predicted, LAMBDA r : r.y_true = 1)
    IN IF predicted = <<>> THEN Zero ELSE Reduce(Len(hits), Len(predicted))

\* _compute_fairness_metrics on at least two groups: the first two only
fairness_metrics_of(rows, unique_groups) ==
    LET rows_0 == Masked(rows, unique_groups[1])
        rows_1 == Masked(rows, unique_groups[2])
        ppr_0 == MeanPrediction(rows_0)
        ppr_1 == MeanPrediction(rows_1)
        demographic_parity_diff == RAbs(Sub(ppr_0, ppr_1))
        tpr_0 == MeanPrediction(SelectSeq(rows_0, LAMBDA r : r.y_true = 1))
        tpr_1 == MeanPrediction(SelectSeq(rows_1, LAMBDA r : r.y_true = 1))
        fpr_0 == MeanPrediction(SelectSeq(rows_0, LAMBDA r : r.y_true = 0))
        fpr_1 == MeanPrediction(SelectSeq(rows_1, LAMBDA r : r.y_true = 0))
    IN [ demographic_parity_difference |-> demographic_parity_diff,
         equal_opportunity_difference |-> RAbs(Sub(tpr_0, tpr_1)),
         disparate_impact_ratio |-> IF Gt(ppr_0, Zero) THEN Div(ppr_1, ppr_0) ELSE One,
         statistical_parity |-> Sub(One, demographic_parity_diff),
         predictive_parity |->
             Sub(One, RAbs(Sub(precision_score(rows_0), precision_score(rows_1)))),
         equalized_odds_difference |->
             PyMax(RAbs(Sub(tpr_0, tpr_1)), RAbs(Sub(fpr_0, fpr_1))) ]

\* _compute_overall_fairness_score on the six metrics
overall_fairness_score(m) ==
    Mean(<< Sub(One, PyMin(m.demographic_parity_difference, One)),
            Sub(One, PyMin(m.equal_opportunity_difference, One)),
            Sub(One, PyMin(m.equalized_odds_difference, One)),
            Sub(One, PyMin(RAbs(Sub(m.disparate_impact_ratio, One)), One)),
            m.statistical_parity,
            m.predictive_parity >>)

\* the dict analyze_fairness returns; the dict fairness_metrics is a function
\* from its keys, empty in the empty result
Analysis(fairness_metrics, overall, group_metrics, num_groups, ok) ==
    [fairness_metrics |-> fairness_metrics, overall_fairness_score |-> overall,
     group_metrics |-> group_metrics, num_groups |-> num_groups,
     analysis_successful |-> ok]

\* _empty_result
EmptyAnalysis == Analysis(<<>>, Zero, <<>>, 0, FALSE)

\* analyze_fairness for a classification model: the guard on the groups, the
\* metrics of every group, the fairness metrics, the overall score; an
\* exception of a scorer is caught and gives the empty result
analyze_fairness(rows) ==
    LET unique_groups == unique(SensitiveAttr(rows))
    IN IF Len(unique_groups) < 2 THEN EmptyAnalysis
       ELSE IF \E i \in 1..Len(unique_groups) : ScorerRaises(Masked(rows, unique_groups[i]))
       THEN EmptyAnalysis
       ELSE Analysis(fairness_metrics_of(rows, unique_groups),
                     overall_fairness_score(fairness_metrics_of(rows, unique_groups)),
                     compute_group_metrics(SensitiveAttr(rows), unique_groups),
                     Len(unique_groups), TRUE)

NoAnalyses == [first |-> EmptyAnalysis, second |-> EmptyAnalysis]

PairInit ==
    /\ \E n \in 0..MaxOtherRows : hcall \in PairCalls(n)
    /\ hpc = "first"
    /\ hres = NoAnalyses

PairIdle ==
    /\ hcall = [first_two |-> <<>>, others |-> <<>>, others_alt |-> <<>>]
    /\ hpc = "idle"
    /\ hres = NoAnalyses

noth == <<evars, rvars, xvars, fvars, avars, mvars, cvars, ivars, tvars, pvars>>

\* the call on the one input
analyze_first ==
    /\ hpc = "first"
    /\ hres' = [hres EXCEPT !.first = analyze_fairness(InputOf(hcall, 1))]
    /\ hpc' = "second"
    /\ UNCHANGED <<hcall, noth>>

\* the call on the other input
analyze_second ==
    /\ hpc = "second"
    /\ hres' = [hres EXCEPT !.second = analyze_fairness(InputOf(hcall, 2))]
    /\ hpc' = "done"
    /\ UNCHANGED <<hcall, noth>>

PairNext == analyze_first \/ analyze_second

(***************************************************************************)
(* The target column in one request of POST /evaluate: evaluate_model of   *)
(* SMCPEngine, then the statistics, features and fairness of the route     *)
(***************************************************************************)
\* column names of a dataset
ColumnNames == {"target", "label", "age", "gender"}

\* df.columns of n distinct names, the task type, and whether the route
\* found a sensitive attribute
TargetCalls(n) ==
    [ columns : { c \in [1..n -> ColumnNames] : \A i, j \in 1..n : i # j => c[i] # c[j] },
      model_type : {"classification", "regression"},
      sensitive_attr_col : BOOLEAN ]

\* df.columns[-1]
LastColumn(columns) == columns[Len(columns)]

\* the columns of X: df.drop(columns=[c]) and
\* [col for col in df.columns if col != c]
FeatureColumns(columns, c) == SelectSeq(columns, LAMBDA col : col # c)

\* target_column = "target"; if target_column not in df.columns:
\* target_column = df.columns[-1]
target_column(columns) ==
    IF \E i \in 1..Len(columns) : columns[i] = "target"
    THEN "target" ELSE LastColumn(columns)

\* the column each stage used; None where the stage did not run
NoTargets ==
    [y |-> NoValue, X |-> <<>>, value_counts |-> NoValue,
     feature_names |-> <<>>, y_true |-> NoValue]

TargetInit ==
    /\ \E n \in 2..(MaxColumns + 1) : tcall \in TargetCalls(n)
    /\ tpc = "evaluate_model"
    /\ tres = NoTargets

TargetIdle ==
    /\ tcall = [columns |-> <<>>, model_type |-> "classification",
                sensitive_attr_col |-> FALSE]
    /\ tpc = "idle"
    /\ tres = NoTargets

nott == <<evars, rvars, xvars, fvars, avars, mvars, cvars, ivars, hvars, pvars>>

\* smcp_engine.evaluate_model: X and y of the raw metrics
engine_prepare_data ==
    /\ tpc = "evaluate_model"
    /\ tres' = [tres EXCEPT !.y = target_column(tcall.columns),
                            !.X = FeatureColumns(tcall.columns, target_column(tcall.columns))]
    /\ tpc' = "dataset_stats"
    /\ UNCHANGED <<tcall, nott>>

\* the class imbalance of a classification dataset
route_imbalance_ratio ==
    /\ tpc = "dataset_stats"
    /\ tres' = IF tcall.model_type = "classification"
               THEN [tres EXCEPT !.value_counts = LastColumn(tcall.columns)]
               ELSE tres
    /\ tpc' = "feature_names"
    /\ UNCHANGED <<tcall, nott>>

\* the feature matrix of explainability and fairness
route_feature_names ==
    /\ tpc = "feature_names"
    /\ tres' = [tres EXCEPT
                  !.feature_names = FeatureColumns(tcall.columns, LastColumn(tcall.columns))]
    /\ tpc' = "fairness"
    /\ UNCHANGED <<tcall, nott>>

\* y_true of the fairness analysis, when a sensitive attribute was found
route_fairness_y_true ==
    /\ tpc = "fairness"
    /\ tres' = IF tcall.sensitive_attr_col
               THEN [tres EXCEPT !.y_true = LastColumn(tcall.columns)]
               ELSE tres
    /\ tpc' = "done"
    /\ UNCHANGED <<tcall, nott>>

TargetNext ==
    \/ engine_prepare_data
    \/ route_imbalance_ratio
    \/ route_feature_names
    \/ route_fairness_y_true

(***************************************************************************)
(* promote_model_version (routes/models.py): the rows of one model in the  *)
(* tables model_versions and models, and the requests promoting a version  *)
(***************************************************************************)
\* the versions of the model in model_versions
VersionNames == {"1.0", "2.0"}

\* the versions a request may name: those, and one that does not exist
RequestedVersions == VersionNames \cup {"3.0"}

\* the rows of model_versions with is_production = true
Production == { v \in DOMAIN versions : versions[v] }

PromoteInit ==
    /\ versions = [v \in VersionNames |-> FALSE]
    /\ production_version = NoValue
    /\ ppc = [p \in Procs |-> "idle"]
    /\ pwant = [p \in Procs |-> NoValue]

PromoteIdle ==
    /\ versions = <<>>
    /\ production_version = NoValue
    /\ ppc = [p \in Procs |-> "idle"]
    /\ pwant = [p \in Procs |-> NoValue]

notp == <<evars, rvars, xvars, fvars, avars, mvars, cvars, ivars, hvars, tvars>>

\* the request arrives and the ownership of the model is verified
verify_ownership(p) ==
    /\ ppc[p] = "idle"
    /\ \E version \in RequestedVersions, owned \in BOOLEAN :
          /\ pwant' = [pwant EXCEPT ![p] = version]
          /\ ppc' = [ppc EXCEPT ![p] = IF owned THEN "clear" ELSE "not_found"]
    /\ UNCHANGED <<versions, production_version, notp>>

\* raise HTTPException(status_code=404, detail="Model not found")
respond_not_found(p) ==
    /\ ppc[p] = "not_found"
    /\ ppc' = [ppc EXCEPT ![p] = "idle"]
    /\ UNCHANGED <<versions, production_version, pwant, notp>>

\* update({"is_production": False}).eq("model_id", model_id)
clear_production(p) ==
    /\ ppc[p] = "clear"
    /\ versions' = [v \in DOMAIN versions |-> FALSE]
    /\ ppc' = [ppc EXCEPT ![p] = "set"]
    /\ UNCHANGED <<production_version, pwant, notp>>

\* update({"is_production": True}).match({"model_id": model_id, "version": version}):
\* no row is updated when no row matches
set_production(p) ==
    /\ ppc[p] = "set"
    /\ versions' = [v \in DOMAIN versions |-> IF v = pwant[p] THEN TRUE ELSE versions[v]]
    /\ ppc' = [ppc EXCEPT ![p] = "models"]
    /\ UNCHANGED <<production_version, pwant, notp>>

\* update({"production_version": version}).eq("id", model_id), and the
\* response 200 "Promoted to production"
update_production_version(p) ==
    /\ ppc[p] = "models"
    /\ production_version' = pwant[p]
    /\ ppc' = [ppc EXCEPT ![p] = "idle"]
    /\ UNCHANGED <<versions, pwant, notp>>

PromoteNext ==
    \E p \in Procs :
        \/ verify_ownership(p)
        \/ respond_not_found(p)
        \/ clear_production(p)
        \/ set_production(p)
        \/ update_production_version(p)

\* every analysis service at rest
ServicesIdle ==
    /\ ExplainIdle /\ FairnessIdle /\ AttrIdle /\ MetaIdle /\ ScoreIdle
    /\ RankIdle /\ PairIdle /\ TargetIdle /\ PromoteIdle

(***************************************************************************)
(* Specifications                                                          *)
(***************************************************************************)
EngineIdle ==
    /\ ecall = [entry |-> "evaluate_model", framework |-> "sklearn",
                model_type |-> "classification", loads |-> {}, frame |-> "numeric"]
    /\ epc = "idle"
    /\ tried = <<>>
    /\ errors = <<>>
    /\ emodel = NoModel
    /\ eres = NoResult
    /\ eat = NoValue

Init == RouteInit /\ EngineIdle /\ ServicesIdle

Spec == Init /\ [][Next]_vars

SpecSeq == Init /\ [][NextSeq]_vars

InitEngine == EngineInit /\ RouteInit /\ ServicesIdle

SpecEngine == InitEngine /\ [][EngineNext]_vars

\* one call of ExplainabilityEngine.explain_model
InitExplain ==
    /\ RouteInit /\ EngineIdle
    /\ ExplainInit /\ FairnessIdle /\ AttrIdle /\ MetaIdle /\ ScoreIdle
    /\ RankIdle /\ PairIdle /\ TargetIdle /\ PromoteIdle

SpecExplain == InitExplain /\ [][ExplainNext]_vars

\* one call of ExplainabilityEngine.explain_prediction
InitPredict ==
    /\ RouteInit /\ EngineIdle
    /\ PredictInit /\ FairnessIdle /\ AttrIdle /\ MetaIdle /\ ScoreIdle
    /\ RankIdle /\ PairIdle /\ TargetIdle /\ PromoteIdle

SpecPredict == InitPredict /\ [][PredictNext]_vars

\* the ranking of one feature importance vector
InitRank ==
    /\ RouteInit /\ EngineIdle
    /\ ExplainIdle /\ FairnessIdle /\ AttrIdle /\ MetaIdle /\ ScoreIdle
    /\ RankInit /\ PairIdle /\ TargetIdle /\ PromoteIdle

SpecRank == InitRank /\ [][rank_features]_vars

\* analyze_fairness on two inputs
InitPair ==
    /\ RouteInit /\ EngineIdle
    /\ ExplainIdle /\ FairnessIdle /\ AttrIdle /\ MetaIdle /\ ScoreIdle
    /\ RankIdle /\ PairInit /\ TargetIdle /\ PromoteIdle

SpecPair == InitPair /\ [][PairNext]_vars

\* one call of FairnessEngine.analyze_fairness
InitFair ==
    /\ RouteInit /\ EngineIdle
    /\ ExplainIdle /\ FairnessInit /\ AttrIdle /\ MetaIdle /\ ScoreIdle
    /\ RankIdle /\ PairIdle /\ TargetIdle /\ PromoteIdle

SpecFair == InitFair /\ [][FairnessNext]_vars

\* the sensitive attribute resolution of one /evaluate request
InitAttr ==
    /\ RouteInit /\ EngineIdle
    /\ ExplainIdle /\ FairnessIdle /\ AttrInit /\ MetaIdle /\ ScoreIdle
    /\ RankIdle /\ PairIdle /\ TargetIdle /\ PromoteIdle

SpecAttr == InitAttr /\ [][AttrNext]_vars

\* one call of SMCPEngine.calculate_eval_score
InitScore ==
    /\ RouteInit /\ EngineIdle
    /\ ExplainIdle /\ FairnessIdle /\ AttrIdle /\ MetaIdle /\ ScoreInit
    /\ RankIdle /\ PairIdle /\ TargetIdle /\ PromoteIdle

SpecScore == InitScore /\ [][score_metrics]_vars

\* the stages of one request on one dataset
InitTarget ==
    /\ RouteInit /\ EngineIdle
    /\ ExplainIdle /\ FairnessIdle /\ AttrIdle /\ MetaIdle /\ ScoreIdle
    /\ RankIdle /\ PairIdle /\ TargetInit /\ PromoteIdle

SpecTarget == InitTarget /\ [][TargetNext]_vars

\* promotions of versions of one model
InitPromote ==
    /\ RouteInit /\ EngineIdle
    /\ ExplainIdle /\ FairnessIdle /\ AttrIdle /\ MetaIdle /\ ScoreIdle
    /\ RankIdle /\ PairIdle /\ TargetIdle /\ PromoteInit

SpecPromote == InitPromote /\ [][PromoteNext]_vars

\* a metric calculator followed by calculate_eval_score
InitPipeline ==
    /\ RouteInit /\ EngineIdle
    /\ ExplainIdle /\ FairnessIdle /\ AttrIdle /\ MetaIdle /\ PipelineInit
    /\ RankIdle /\ PairIdle /\ TargetIdle /\ PromoteIdle

SpecPipeline == InitPipeline /\ [][PipelineNext]_vars

\* one call of MetaEvaluator._calculate_dataset_health
InitHealth ==
    /\ RouteInit /\ EngineIdle
    /\ ExplainIdle /\ FairnessIdle /\ AttrIdle /\ HealthInit /\ ScoreIdle
    /\ RankIdle /\ PairIdle /\ TargetIdle /\ PromoteIdle

SpecHealth == InitHealth /\ [][step_dataset_health]_vars

\* one call of MetaEvaluator.evaluate
InitMeta ==
    /\ RouteInit /\ EngineIdle
    /\ ExplainIdle /\ FairnessIdle /\ AttrIdle /\ MetaInit /\ ScoreIdle
    /\ RankIdle /\ PairIdle /\ TargetIdle /\ PromoteIdle

SpecMeta == InitMeta /\ [][MetaNext]_vars

(***************************************************************************)
(* Claims on SMCPEngine (SpecEngine)                                       *)
(***************************************************************************)
SklearnLoad == ecall.entry = "evaluate_model" /\ ecall.framework = "sklearn"

\* the first strategy, in source order, that does not raise on the artifact
FirstLoading == CHOOSE i \in ecall.loads : \A j \in ecall.loads : i <= j

\* load_model has returned / has raised
LoadReturned == emodel # NoModel

LoadRaised == epc = "raised" /\ eat = "load"

\* C1: for the sklearn framework load_model attempts the strategies in the one
\* fixed source order; it returns the object of the first strategy that does
\* not raise, attempts no strategy after that one, and raises only when every
\* strategy has raised.
C1_FirstStrategyWins ==
    SklearnLoad =>
        /\ \A k \in 1..Len(tried) : tried[k] = STRATEGIES[k]
        /\ ecall.loads # {} => Len(tried) <= FirstLoading
        /\ LoadReturned =>
              /\ ecall.loads # {}
              /\ emodel = Loaded(FirstLoading)
              /\ Len(tried) = FirstLoading
        /\ LoadRaised =>
              /\ ecall.loads = {}
              /\ Len(tried) = NumStrategies
        /\ (Len(tried) = NumStrategies /\ ecall.loads = {}) => LoadRaised

\* C1 witness: the second strategy loaded the artifact after the first raised,
\* a later strategy would have loaded it too, and the call went on to return
C1_Witness ==
    /\ SklearnLoad
    /\ ecall.loads = {2, 4}
    /\ emodel = Loaded(2)
    /\ tried = <<STRATEGIES[1], STRATEGIES[2]>>
    /\ epc = "returned"

\* the failure entries of the load error are one per label, all different
DistinctEntries(entries) ==
    \A i, j \in 1..Len(entries) : i # j => entries[i].label # entries[j].label

\* C2 as stated: when every strategy fails, the load error carries exactly
\* four distinct failure entries.
C2_FourEntries ==
    (SklearnLoad /\ LoadRaised) =>
        /\ Len(eres.entries) = 4
        /\ DistinctEntries(eres.entries)

\* C2 amended: when every strategy fails, the load error is a ValueError that
\* carries exactly five distinct failure entries, one for each of the five
\* strategies (joblib, standard pickle, latin1, bytes, fix_imports) in the
\* order attempted, each with that strategy's failure reason.
C2_OneEntryPerStrategy ==
    (SklearnLoad /\ LoadRaised) =>
        /\ eres.type = "ValueError"
        /\ Len(eres.entries) = NumStrategies
        /\ NumStrategies = 5
        /\ DistinctEntries(eres.entries)
        /\ \A i \in 1..NumStrategies :
              /\ eres.entries[i].label = LABELS[i]
              /\ eres.entries[i].reason = <<"exception of", tried[i]>>

\* C2 witness: a corrupted artifact, on which every strategy raised
C2_Witness ==
    /\ SklearnLoad
    /\ ecall.loads = {}
    /\ LoadRaised
    /\ Len(tried) = NumStrategies

\* C3 as stated: for every task type and every framework for which the task
\* type has no prediction-extraction path, metric evaluation raises and never
\* returns a metrics result.
C3_UnsupportedPairRaises ==
    eres.kind = "returned" => ecall.framework \in PredictionPath(ecall.model_type)

(***************************************************************************)
(* Claims on the /evaluate handler (Spec, SpecSeq)                         *)
(***************************************************************************)
Quiescent == \A p \in Procs : ~InFlight(p)

\* the completed requests of a pair that wrote a row
Writers(m, d) == { h \in history : h.model = m /\ h.dataset = d }

Succeeded(m, d) == { h \in Writers(m, d) : h.status = 200 }

Latest(H) == CHOOSE h \in H : \A g \in H : g.n <= h.n

\* C4: a request whose model loading or metric calculation failed answers
\* with one error (400 or 500) and leaves the store as it was: no row of
\* "evaluations" carries its result, it was returned no row, and the model's
\* evaluated flag is set only if some other request of that model succeeded.
C4_EngineFailureLeavesStore ==
    \A p \in Procs :
        (pc[p] = "failed" /\ req[p].failedAt \in EngineStages) =>
            /\ req[p].status \in {400, 500}
            /\ req[p].response = NoRow
            /\ \A i \in 1..Len(evaluations) : evaluations[i].result # req[p].n
            /\ evaluated[req[p].model] =>
                  \E h \in history :
                      h.model = req[p].model /\ h.status = 200 /\ h.n # req[p].n

\* C4 witness: a request failed in the engine while the store already held a
\* row of its pair, written by an earlier request
C4_Witness ==
    \E p \in Procs :
        /\ pc[p] = "failed"
        /\ req[p].failedAt \in {"load", "metrics"}
        /\ req[p].n = 2
        /\ Len(evaluations) = 1
        /\ evaluations[1].model_id = req[p].model
        /\ evaluations[1].result = 1

\* C5: an exception in the explainability or in the fairness analysis never
\* fails the request: no request ends at those steps; a request in which one
\* of them raised fails only if persistence fails, and otherwise is answered
\* 200 with the row that was stored for it, in which the fields of the failed
\* analysis are null.
C5_AnalysisFailureIsLocal ==
    \A p \in Procs :
        /\ req[p].failedAt \notin {"explain", "fairness"}
        /\ (req[p].expl = "raised" \/ req[p].fair = "raised") =>
              /\ pc[p] = "failed" => req[p].failedAt = "persist"
              /\ pc[p] = "done" =>
                    /\ req[p].status = 200
                    /\ req[p].response.id # 0
                    /\ req[p].response.result = req[p].n
                    /\ req[p].expl = "raised" =>
                          req[p].response.explainability_method = NoValue
                    /\ req[p].fair = "raised" =>
                          req[p].response.fairness_metrics = NoValue

\* C5 witness: both analyses raised and the request was answered 200
C5_Witness ==
    \E p \in Procs :
        /\ pc[p] = "done"
        /\ req[p].expl = "raised"
        /\ req[p].fair = "raised"
        /\ req[p].status = 200
        /\ \E i \in 1..Len(evaluations) : evaluations[i] = req[p].response

\* C6 as stated: a failure inside the Meta Evaluator, or in the dataset
\* statistics feeding it, does not abort the request.
C6_MetaFailureDegrades ==
    \A p \in Procs : pc[p] = "failed" => req[p].failedAt # "meta"

\* C7 as stated: a failed request is answered 400 exactly when model loading
\* failed or the (task type, framework) pair is unsupported; a failure of any
\* other step after the metadata lookup is answered 500.
C7_ClientErrorOnlyForModel ==
    \A p \in Procs :
        (pc[p] = "failed" /\ req[p].failedAt # "metadata") =>
            /\ req[p].status = 400 <=> req[p].failedAt \in {"load", "unsupported"}
            /\ req[p].failedAt \notin {"load", "unsupported"} => req[p].status = 500

\* C8: when requests do not overlap, "evaluations" holds at most one row per
\* (model, dataset) pair, and once the requests that wrote for a pair have all
\* succeeded that row holds the result of the most recent of them.
C8_OneRowPerPair ==
    \A m \in Models, d \in Datasets :
        /\ Cardinality(SelectEvaluations(m, d)) <= 1
        /\ (Quiescent /\ Writers(m, d) # {} /\ Succeeded(m, d) = Writers(m, d)) =>
              \E i \in SelectEvaluations(m, d) :
                  evaluations[i].result = Latest(Writers(m, d)).n

\* C8 witness: the pair was evaluated twice, and its one row holds the result
\* of the second request
C8_Witness ==
    \E m \in Models, d \in Datasets :
        /\ Quiescent
        /\ Cardinality(Succeeded(m, d)) = 2
        /\ Len(evaluations) = 1
        /\ evaluations[1].result = 2
        /\ evaluations[1].id = 1

\* C9 as stated: once two requests of the same pair have both completed,
\* however their check and write steps interleaved, the store holds a single
\* row for the pair.
C9_SingleRowAfterRace ==
    \A m \in Models, d \in Datasets :
        (Quiescent /\ Cardinality(Succeeded(m, d)) = 2) =>
            Cardinality(SelectEvaluations(m, d)) = 1

\* C10: outside the with block of a request (before it, after it returned,
\* after an HTTP error or an exception of any step) no temporary file of the
\* request remains.
C10_TempReleased ==
    \A p \in Procs : pc[p] \notin InsideWith => temp[p] = {}

\* C10 witness: requests left the block by an exception after both files were
\* written, and by its normal end
C10_Witness ==
    /\ \E p \in Procs : pc[p] = "failed" /\ req[p].failedAt = "metrics" /\ temp[p] = {}
    /\ \E p \in Procs : pc[p] = "done" /\ temp[p] = {}

(***************************************************************************)
(* Claims on ExplainabilityEngine (SpecExplain)                            *)
(***************************************************************************)
\* the place of a technique in the order of explain_model
Rank(t) == CHOOSE i \in 1..Len(TECHNIQUES) : TECHNIQUES[i] = t

\* the engine can run the technique at all
Available(t) ==
    CASE t = "SHAP" -> xcall.shap_available
      [] t = "LIME" -> xcall.lime_available
      [] t = "basic" -> TRUE

\* the technique, run on the call's model and data, gives a truthy result
Yields(t) ==
    CASE t = "SHAP" -> xcall.explainers # {} /\ xcall.shap_values = "ok"
      [] t = "LIME" -> xcall.lime = "ok"
      [] t = "basic" -> xcall.basic = "list"

\* C11: explain_model runs the techniques in the order SHAP, LIME, basic,
\* skipping none that is available; no technique is run after one that gave
\* a result; and method_used is exactly the technique that gave the result,
\* which is the last one run.
C11_FirstSuccessIsUsed ==
    /\ \A i, j \in 1..Len(xran) : i < j => Rank(xran[i]) < Rank(xran[j])
    /\ \A i \in 1..Len(xran) : \A t \in {"SHAP", "LIME"} :
          (Rank(t) < Rank(xran[i]) /\ Available(t)) => \E j \in 1..(i - 1) : xran[j] = t
    /\ \A i \in 1..(Len(xran) - 1) : ~Yields(xran[i])
    /\ xres.method_used # NoValue =>
          /\ xpc = "returned"
          /\ xres.method_used = xran[Len(xran)]
          /\ Yields(xres.method_used)
    /\ (xpc = "returned" /\ xran # <<>> /\ Yields(xran[Len(xran)])) =>
          xres.method_used = xran[Len(xran)]

\* C11 witness: SHAP was run and gave nothing, LIME was run and is reported,
\* and the basic importance, which would have given a result, was not run
C11_Witness ==
    /\ xpc = "returned"
    /\ xran = <<"SHAP", "LIME">>
    /\ xres.method_used = "LIME"
    /\ xcall.basic = "list"

\* C12: explain_model never raises; whatever fails (a technique, every
\* technique, the sampling of the inputs), the call returns, and the result
\* it returns has `error` set exactly when method_used is None.
C12_NeverRaisesErrorIffNoMethod ==
    /\ xres.kind # "raised"
    /\ xpc \in {"idle", "sample", "shap", "lime", "basic", "returned"}
    /\ xpc = "returned" =>
          /\ xres.kind = "returned"
          /\ (xres.error # NoValue) <=> (xres.method_used = NoValue)

\* C12 witness: the sampling of the inputs raised, and the call returned a
\* result with the error and without a method
C12_Witness ==
    /\ xpc = "returned"
    /\ xcall.sampling = "raises"
    /\ xran = <<>>
    /\ xres.error # NoValue
    /\ xres.method_used = NoValue

(***************************************************************************)
(* Claims on FairnessEngine (SpecFair)                                     *)
(***************************************************************************)
\* the distinct values of the sensitive attribute
DistinctValues == { fcall.sensitive_attr[i] : i \in 1..Len(fcall.sensitive_attr) }

\* C13: when the task type is not classification, or the sensitive attribute
\* has fewer than two distinct values, or a step of the analysis raises,
\* analyze_fairness returns (it does not raise) the result with
\* analysis_successful False, no group metrics, no fairness metrics,
\* num_groups 0 and sensitive_attribute None, and nothing of what it had
\* computed.
C13_EmptyResultOnFailure ==
    /\ fres.kind \in {"none", "returned"}
    /\ (/\ fpc = "returned"
        /\ \/ fcall.model_type # "classification"
           \/ Cardinality(DistinctValues) < 2
           \/ fcall.raises # NoValue)
       => /\ fres.kind = "returned"
          /\ fres.value.analysis_successful = FALSE
          /\ fres.value.group_metrics = <<>>
          /\ fres.value.fairness_metrics = {}
          /\ fres.value.num_groups = 0
          /\ fres.value.sensitive_attribute = NoValue

\* C13 witness: the last step raised after the group metrics and the
\* fairness metrics of two groups had been computed
C13_Witness ==
    /\ fpc = "returned"
    /\ fcall.raises = "overall_score"
    /\ Len(fwork.group_metrics) = 2
    /\ fwork.fairness_metrics # {}
    /\ fres.value.analysis_successful = FALSE

(***************************************************************************)
(* Claims on the sensitive attribute resolution (SpecAttr)                 *)
(***************************************************************************)
\* C14 as stated: a request-supplied name that is a dataset column is the
\* resolved column, whatever the lower-priority sources hold.
C14_RequestedColumnWins ==
    (/\ apc = "done"
     /\ acall.request # NoName
     /\ InColumns(acall.request, acall.df))
    => ares.col = acall.request

(***************************************************************************)
(* Claims on MetaEvaluator (SpecMeta, SpecHealth)                          *)
(***************************************************************************)
\* the band of a score: >= 85, >= 70, >= 50, below
Band(score) ==
    IF Ge(score, Rat(85, 1)) THEN "production_ready"
    ELSE IF Ge(score, Rat(70, 1)) THEN "production_ready_with_monitoring"
    ELSE IF Ge(score, Rat(50, 1)) THEN "needs_improvement"
    ELSE "not_recommended"

\* the flags of the evaluator whose name contains 'severe', 'critical',
\* 'negative' or 'low_accuracy'
CriticalNames ==
    {"severe_class_imbalance", "low_accuracy", "negative_r2_warning"}

CriticalRaised == \E i \in 1..Len(mres.flags) : mres.flags[i] \in CriticalNames

\* C15: the status of the verdict is needs_improvement whenever a raised flag
\* is a critical one, whatever the score; otherwise it is the band of the
\* meta score handed to _generate_verdict.
C15_CriticalFlagOverridesBand ==
    mpc = "returned" =>
        mres.verdict.status =
            IF CriticalRaised THEN "needs_improvement" ELSE Band(mres.meta_score)

\* C15 witness: a meta score of at least 85 with a critical flag raised, and
\* the status needs_improvement
C15_Witness ==
    /\ mpc = "returned"
    /\ Ge(mres.meta_score, Rat(85, 1))
    /\ CriticalRaised
    /\ mres.verdict.status = "needs_improvement"

C20_HealthAlwaysInRange ==
    mpc # "health" =>
        /\ mpc # "raised"
        /\ Ge(mres.dataset_health, Zero)
        /\ Le(mres.dataset_health, Hundred)

(***************************************************************************)
(* Claims on SMCPEngine.calculate_eval_score (SpecScore)                   *)
(***************************************************************************)
\* the value in [0, 1]
InUnit(v) == Ge(v, Zero) /\ Le(v, One)

\* C17 as stated: for every MetricsResult and task type calculate_eval_score
\* returns, with the score in [0, 100] and every normalized metric in [0, 1].
C17_ScoreNeverFails ==
    spc = "done" =>
        /\ sres.kind = "returned"
        /\ ValidScore(sres.eval_score)
        /\ \A k \in DOMAIN sres.normalized_metrics : InUnit(sres.normalized_metrics[k])

\* the weighted metrics of the task type that the MetricsResult lacks
Missing == DOMAIN METRIC_WEIGHTS(scall.model_type) \ PresentMetrics(scall)

\* a higher-is-better metric of the call is NaN (an empty rouge dict has a
\* NaN mean); a NaN lower-is-better metric fails `value >= 0` and counts 0
SomeNaN ==
    \E k \in PresentMetrics(scall) \ LOWER_IS_BETTER : IsNaN(MetricValue(scall, k))

\* 100 x the sum, over the keys of weight_distribution that normalized_metrics
\* holds, of normalized_metrics[k] x weight_distribution[k]
Reproduced ==
    LET keys == DOMAIN sres.weight_distribution \cap DOMAIN sres.normalized_metrics
    IN Mul(Hundred,
           SumOver([k \in keys |-> Mul(sres.normalized_metrics[k],
                                       sres.weight_distribution[k])], keys))

\* the weights of the metrics that entered the sum
AppliedWeight == SumOver(METRIC_WEIGHTS(scall.model_type), PresentMetrics(scall))

\* the call failed on a NaN, or handed the NaN back as the score
NaNOutcome == sres.kind = "raised" \/ IsNaN(sres.eval_score)

\* the call returned the sum over the present metrics, rounded to two decimals
RoundedOutcome ==
    /\ sres.kind = "returned"
    /\ DOMAIN sres.normalized_metrics = PresentMetrics(scall)
    /\ sres.eval_score \in Round2(Reproduced)

\* C18 as stated: when the MetricsResult lacks a weighted metric, the applied
\* weights sum to less than 1 and the score equals 100 x the sum of
\* normalized x weight over the present metrics.
C18_ScoreEqualsPartialSum ==
    (spc = "done" /\ Missing # {} /\ sres.kind = "returned") =>
        /\ Lt(AppliedWeight, One)
        /\ sres.eval_score = Reproduced

\* C18 amended: when the MetricsResult lacks a weighted metric, the applied
\* weights sum to less than 1, and the score is 100 x the sum of
\* normalized x weight over the present metrics only, rounded to two
\* decimals; with a NaN among the present higher-is-better metrics the call
\* fails or the score is NaN.
C18_RoundedPartialSum ==
    (spc = "done" /\ Missing # {}) =>
        /\ Lt(AppliedWeight, One)
        /\ IF SomeNaN THEN NaNOutcome ELSE RoundedOutcome

\* C18 witness: a classification result with accuracy and recall alone, both
\* 1: half of the weight is applied and the score is 50, not 100
C18_Witness ==
    /\ spc = "done"
    /\ scall.model_type = "classification"
    /\ PresentMetrics(scall) = {"accuracy", "recall"}
    /\ scall.metrics["accuracy"] = One /\ scall.metrics["recall"] = One
    /\ AppliedWeight = Rat(1, 2)
    /\ sres.eval_score = Rat(50, 1)

\* a classification MetricsResult with all four weighted metrics
CompleteClassification ==
    /\ scall.model_type = "classification"
    /\ Missing = {}

\* C19 as stated: for a classification MetricsResult with all four weighted
\* metrics the returned score equals 100 x the sum over the keys k of
\* weight_distribution of normalized_metrics[k] x weight_distribution[k].
C19_ScoreEqualsFormula ==
    (spc = "done" /\ CompleteClassification /\ sres.kind = "returned") =>
        sres.eval_score = Reproduced

\* C19 amended: for a classification MetricsResult with all four weighted
\* metrics the returned score is the formula's value rounded to two decimals,
\* computable from the two returned mappings; with a NaN among the metrics
\* the call fails or the score is NaN.
C19_ScoreIsRoundedFormula ==
    (spc = "done" /\ CompleteClassification) =>
        IF SomeNaN THEN NaNOutcome
        ELSE /\ RoundedOutcome
             /\ DOMAIN sres.weight_distribution = DOMAIN sres.normalized_metrics

\* C19 witness: all four metrics present and the formula's value, with three
\* decimals, is not the score returned
C19_Witness ==
    /\ spc = "done"
    /\ CompleteClassification
    /\ sres.kind = "returned"
    /\ ~IsNaN(sres.eval_score)
    /\ sres.eval_score # Reproduced
    /\ Le(RAbs(Sub(sres.eval_score, Reproduced)), Rat(1, 200))

(***************************************************************************)
(* Further claims on MetaEvaluator (SpecMeta)                              *)
(***************************************************************************)
\* the complexity adjustment has been computed
ComplexityDone == mpc \in {"meta_score", "flags", "recommendations", "verdict", "returned"}

\* C21 as stated: for every input the complexity adjustment lies in [-30, 0].
C21_AdjustmentInRange ==
    ComplexityDone =>
        /\ Ge(mres.complexity_adj, Rat(-30, 1))
        /\ Le(mres.complexity_adj, Zero)

\* the flag is in the list of flags raised
Raised(flag) == \E i \in 1..Len(mres.flags) : mres.flags[i] = flag

\* C22 as stated: the absence of a metric or of a statistic raises no flag by
\* itself and subtracts nothing from the dataset health: an evaluation on an
\* empty dataset_stats has a dataset health of 100 and no dataset flag, and
\* one on metrics without accuracy (without r2_score) has no low_accuracy
\* (low_r2_score) flag.
C22_AbsenceIsNeutral ==
    mpc = "returned" =>
        /\ mcall.stats = <<>> =>
              /\ mres.dataset_health = Hundred
              /\ ~Raised("small_sample_size")
        /\ "accuracy" \notin DOMAIN mcall.metrics => ~Raised("low_accuracy")
        /\ "r2_score" \notin DOMAIN mcall.metrics => ~Raised("low_r2_score")

\* how favourable a status is
Favour(status) ==
    CASE status = "not_recommended" -> 0
      [] status = "needs_improvement" -> 1
      [] status = "production_ready_with_monitoring" -> 2
      [] status = "production_ready" -> 3

\* C26 as stated: with a critical flag raised the status is no better than
\* the status of the band of the meta score.
C26_CriticalFlagNeverImproves ==
    (mpc = "returned" /\ CriticalRaised) =>
        Favour(mres.verdict.status) <= Favour(Band(mres.meta_score))

\* C27 as stated: the complexity adjustment of an evaluation is negative
\* exactly when its flags contain overfitting_detected.
C27_OverfittingSignalsAgree ==
    mpc = "returned" =>
        (Lt(mres.complexity_adj, Zero) <=> Raised("overfitting_detected"))

(***************************************************************************)
(* Claims on explain_prediction (SpecPredict)                              *)
(***************************************************************************)
\* the method explain_model reports on the call: the first technique, in the
\* order SHAP, LIME, basic, that is available and gives a result
CascadeMethod ==
    IF \E i \in 1..Len(TECHNIQUES) : Available(TECHNIQUES[i]) /\ Yields(TECHNIQUES[i])
    THEN TECHNIQUES[CHOOSE i \in 1..Len(TECHNIQUES) :
                       /\ Available(TECHNIQUES[i]) /\ Yields(TECHNIQUES[i])
                       /\ \A j \in 1..(i - 1) :
                             ~(Available(TECHNIQUES[j]) /\ Yields(TECHNIQUES[j]))]
    ELSE NoValue

\* C23 as stated: on a sample the model can predict, explain_prediction
\* reports as its method the technique the cascade SHAP, LIME, basic of
\* explain_model stops at.
C23_SameCascade ==
    (xpc = "returned" /\ xcall.sampling = "ok") => xres.method_used = CascadeMethod

(***************************************************************************)
(* Claims on the feature importance list (SpecRank)                        *)
(***************************************************************************)
\* C24 as stated: the list is in descending order of importance, the ranks
\* are 1..n in order, every feature appears once, and features of equal
\* importance appear in their original order.
C24_StableDescendingRanks ==
    ipc = "done" =>
        /\ Len(ires) = Len(icall.importance)
        /\ \A k \in 1..Len(ires) : ires[k].rank = k
        /\ \A f \in 1..Len(icall.importance) : \E k \in 1..Len(ires) : ires[k].feature = f
        /\ \A k, l \in 1..Len(ires) :
              k < l => /\ ires[k].importance >= ires[l].importance
                       /\ ires[k].importance = ires[l].importance
                             => ires[k].feature < ires[l].feature

(***************************************************************************)
(* Claims on the fairness metrics of two inputs (SpecPair)                 *)
(***************************************************************************)
\* the distinct groups of the input of a call
GroupsOf(which) ==
    { InputOf(hcall, which)[i].g : i \in 1..Len(InputOf(hcall, which)) }

\* C25 as stated: two inputs that differ only in the labels and predictions
\* of samples outside the first two groups have the same fairness_metrics and
\* the same overall_fairness_score, and in each result group_metrics has one
\* entry per distinct group and num_groups counts all groups.
C25_OnlyFirstTwoGroupsMatter ==
    hpc = "done" =>
        /\ hres.first.fairness_metrics = hres.second.fairness_metrics
        /\ hres.first.overall_fairness_score = hres.second.overall_fairness_score
        /\ Len(hres.first.group_metrics) = Cardinality(GroupsOf(1))
        /\ hres.first.num_groups = Cardinality(GroupsOf(1))
        /\ Len(hres.second.group_metrics) = Cardinality(GroupsOf(2))
        /\ hres.second.num_groups = Cardinality(GroupsOf(2))

(***************************************************************************)
(* Claims on the pipeline of metrics and score (SpecPipeline)              *)
(***************************************************************************)
\* every populated metric has its best value: 0 for the errors, 100 for
\* BLEU, 1 for the others
PerfectMetrics ==
    /\ \A k \in DOMAIN scall.metrics :
          scall.metrics[k] = (IF k \in LOWER_IS_BETTER THEN Zero
                              ELSE IF k = "bleu_score" THEN Hundred ELSE One)
    /\ \A i \in 1..Len(scall.rouge.values) : scall.rouge.values[i] = One

\* C28 as stated: every metric name of the task type's weight table is a
\* field its calculator populates, and a model with perfect raw metrics gets
\* the unified score 100.
C28_PerfectMetricsScoreHundred ==
    spc = "done" =>
        /\ DOMAIN METRIC_WEIGHTS(scall.model_type) \subseteq MetricFields(scall.model_type)
        /\ PerfectMetrics => sres.kind = "returned" /\ sres.eval_score = Hundred

(***************************************************************************)
(* Claims on the target column of a request (SpecTarget)                   *)
(***************************************************************************)
\* C29 as stated: in a finished request the column used as y for the raw
\* metrics is the column left out of the feature matrix of explainability
\* and fairness, the column of y_true in fairness and the column of the
\* class-imbalance statistic, whenever those stages ran.
C29_OneTargetColumn ==
    tpc = "done" =>
        /\ tres.feature_names = FeatureColumns(tcall.columns, tres.y)
        /\ tres.feature_names = tres.X
        /\ tres.y_true # NoValue => tres.y_true = tres.y
        /\ tres.value_counts # NoValue => tres.value_counts = tres.y

(***************************************************************************)
(* Claims on the promotion of a version (SpecPromote)                      *)
(***************************************************************************)
\* C30 as stated: when a promotion of version v completes with the response
\* 200, exactly one version of the model is marked is_production, it is v,
\* and the model's production_version is v.
C30_ExactlyOnePromoted ==
    [][\A p \in Procs :
          ppc[p] = "models" /\ ppc'[p] = "idle" =>
              /\ Production' = {pwant[p]}
              /\ production_version' = pwant[p]]_vars

====
